---- MODULE Spec2Model ----
(***************************************************************************)
(* Model of the email generator's core components:           *)
(*   - the sequential workflow executor (src/workflow/langgraph_flow.py)   *)
(*     with its agents (src/agents/*.py) and the local stub generator;     *)
(*   - the LLM wrapper's retry loop and invoke_chain                       *)
(*     (src/utils/llm_wrapper.py) and the sliding-window rate limiter      *)
(*     (src/utils/rate_limiter.py);                                        *)
(*   - the memory manager with PostgreSQL backend and JSON-file fallback   *)
(*     (src/memory/memory_manager.py).                                     *)
(*                                                                         *)
(* Texts (drafts, error messages) are sequences of string tokens; a text   *)
(* is empty when it has no non-empty token.  Times are integers.           *)
(***************************************************************************)
EXTENDS Integers, Sequences, FiniteSets, TLC

VARIABLES
    pphase,      \* workflow: "idle" | "running" | "returned"
    pstate,      \* workflow: the state dict (a function from present keys to values)
    pidx,        \* workflow: index into the agent order of the next agent to run
    ptrace,      \* workflow: developer_trace collected so far
    pdev,        \* workflow: developer_mode argument
    ran,         \* workflow (history): names of the agents invoked, in order
    quotaAt,     \* workflow (history): index of the agent that raised a quota error, 0 if none
    healthy,     \* workflow (history): every agent so far ran with a working provider and did not raise
    lastStep     \* workflow (history): what the last step did and the state before it

VARIABLES
    now,               \* limiter: the clock (time.time()), in hundredths of a second
    req_timestamps,    \* limiter: _req_timestamps
    token_timestamps,  \* limiter: _token_timestamps, pairs <<timestamp, tokens>>
    in_flight,         \* limiter: _in_flight
    tpc,               \* limiter: per caller "idle" | "waiting" (inside acquire) | "holding"
    test,              \* limiter: per caller est_tokens of its acquire call
    twake,             \* limiter: per caller the time its sleep inside acquire ends
    admitted           \* limiter (history): <<timestamp, tokens>> of every admission

lvars == <<now, req_timestamps, token_timestamps, in_flight, tpc, test, twake, admitted>>

VARIABLES
    rphase,     \* retry loop: "idle" | "calling" | "sleeping" | "returned" | "raised"
    rcfg,       \* retry loop: the retry policy [mr, ib, bf, mb] of the run
    attempt,    \* retry loop: the local variable attempt
    rdelay,     \* retry loop: the delay passed to time.sleep
    rresult,    \* retry loop: the value returned (the number of the attempt that produced it)
    rerror,     \* retry loop: the LLMWrapperError raised
    routcomes,  \* retry loop (history): outcome of every call of func, in order
    rsleeps     \* retry loop (history): every delay slept, in order

rvars == <<rphase, rcfg, attempt, rdelay, rresult, rerror, routcomes, rsleeps>>

VARIABLES
    rate_limiter,  \* invoke: LLMWrapper._rate_limiter, "unset" (no wrapper yet) | "none" | "on"
    max_retries,   \* invoke: LLMWrapper.max_retries
    inv            \* invoke: per thread its position in invoke_chain and what it did so far

ivars == <<rate_limiter, max_retries, inv>>

VARIABLES
    inside,   \* lock: the threads inside a "with self._lock" block of the limiter
    decided   \* lock: per thread what its check inside the block found

kvars == <<inside, decided>>

VARIABLES
    mphase,        \* memory: "start" | "configured" (settings loaded) | "built" (MemoryManager())
    database_url,  \* memory: settings.database_url is configured
    db_manager,    \* memory: the global _db_manager, "uninit" | "ready"
    use_db,        \* memory: MemoryManager._use_db
    db_profiles,   \* memory: ids of the rows of table user_profiles
    db_drafts,     \* memory: rows of table drafts in order of insertion
    draft_files,   \* memory: content of <user>_drafts.json for each user that has the file
    db_prefs,      \* memory: column preferences of user_profiles, per user
    profile_files, \* memory: content of <user>_profile.json for each user that has the file
    written,       \* memory (history): per user the preferences its latest save_profile passed
    saves,         \* memory (history): number of save_draft and save_profile calls made
    lastOp         \* memory (history): the last call, its outcome and what it found

\* what only the profile calls touch
pfvars == <<db_prefs, profile_files, written>>

svars == <<mphase, database_url, db_manager, use_db, db_profiles, db_drafts, draft_files,
           pfvars, saves, lastOp>>

pvars == <<pphase, pstate, pidx, ptrace, pdev, ran, quotaAt, healthy, lastStep>>

----------------------------------------------------------------------------
(* Generic helpers *)

Get(s, k, default) == IF k \in DOMAIN s THEN s[k] ELSE default

\* dict.update / the merge loop "for k, v in updates.items(): state[k] = v"
Merge(s, u) == [k \in (DOMAIN s) \cup (DOMAIN u) |-> IF k \in DOMAIN u THEN u[k] ELSE s[k]]

Restrict(s, keys) == [k \in (DOMAIN s) \cap keys |-> s[k]]

NonEmptyText(t) == \E i \in 1..Len(t) : t[i] # ""

RECURSIVE SelectLines(_, _)
SelectLines(lines, n) ==
    IF n = 0 THEN << >>
    ELSE LET rest == SelectLines(lines, n - 1)
         IN  IF lines[n].text # "" THEN Append(rest, lines[n]) ELSE rest

SeqToSet(sq) == {sq[i] : i \in 1..Len(sq)}

Prefix(sq, n) == [i \in 1..(IF Len(sq) < n THEN Len(sq) ELSE n) |-> sq[i]]

----------------------------------------------------------------------------
(* Raw inputs.  A raw input is a sequence of lines; a line records its     *)
(* stripped text, the "Label:" prefix it starts with (lower-cased, "" when *)
(* there is none), the text after the first colon, whether the line is     *)
(* longer than 20 characters, and the intent keywords it contains.         *)

Line(text, label, val, long, kws) ==
    [text |-> text, label |-> label, val |-> val, long |-> long, kws |-> kws]

BlankLine == Line("", "", "", FALSE, {})

InputJohn ==
    << Line("Recipient: John", "recipient", "John", FALSE, {}),
       Line("Follow up about the proposal", "", "", TRUE, {"follow"}) >>

InputNoName ==
    << Line("Recipient:", "recipient", "", FALSE, {}),
       BlankLine,
       Line("To: Ann", "to", "Ann", FALSE, {}) >>

InputEmpty == << >>

InputBlank == << BlankLine >>

RawInputs == {InputJohn, InputNoName, InputEmpty, InputBlank}

\* [ln.strip() for ln in user_input.splitlines() if ln.strip()]
StrippedLines(inp) == SelectLines(inp, Len(inp))

InputKeywords(inp) == UNION {inp[i].kws : i \in 1..Len(inp)}

\* the whole input as one text
InputText(inp) == [i \in 1..Len(inp) |-> inp[i].text]

GeminiModel == "gemini-2.0-flash-lite"

----------------------------------------------------------------------------
(* _generate_stub_state *)

RECURSIVE StubRecipient(_, _, _)
\* "for ln in lines[:3]": the last "recipient:" line among the first three wins
StubRecipient(lines, n, acc) ==
    IF n > Len(lines) \/ n > 3 THEN acc
    ELSE StubRecipient(lines, n + 1,
                       IF lines[n].label = "recipient" THEN lines[n].val ELSE acc)

StubIntent(inp) ==
    LET kw == InputKeywords(inp)
    IN  IF "follow" \in kw THEN "follow_up"
        ELSE IF "thank" \in kw THEN "thank_you"
        ELSE IF "meeting" \in kw \/ "schedule" \in kw THEN "meeting_request"
        ELSE IF "apolog" \in kw THEN "apology"
        ELSE IF "update" \in kw \/ "status" \in kw THEN "status_update"
        ELSE "outreach"

RECURSIVE LongLines(_, _)
LongLines(lines, n) ==
    IF n = 0 THEN << >>
    ELSE LET rest == LongLines(lines, n - 1)
         IN  IF Len(rest) < 4 /\ lines[n].long THEN Append(rest, lines[n].text) ELSE rest

\* sentence fragments of the input with newlines replaced by blanks: the
\* inputs carry no full stop, so the stripped input is one fragment
Sentences(inp) ==
    LET ls == StrippedLines(inp)
    IN  IF Len(ls) = 0 THEN << >> ELSE << ls[1].text >>

StubKeyPoints(inp) ==
    LET ls   == StrippedLines(inp)
        long == LongLines(ls, Len(ls))
    IN  IF Len(long) > 0 THEN long ELSE Prefix(Sentences(inp), 3)

StubPurpose(inp) ==
    LET kp == StubKeyPoints(inp)
    IN  IF Len(kp) > 0 THEN kp[1]
        ELSE IF Len(inp) > 0 THEN inp[1].text ELSE ""

StubDraft(inp) ==
    LET kp == StubKeyPoints(inp)
    IN  << "Dear ", StubRecipient(StrippedLines(inp), 1, "Recipient"), ",", StubPurpose(inp), "." >>
        \o kp
        \o << "I look forward to hearing from you.", "Best regards" >>

\* _generate_stub_state with a draft made of the key points alone, without
\* the salutation and the closing lines
_generate_stub_state_BodyOnly(inp, tone) ==
    LET recipient == StubRecipient(StrippedLines(inp), 1, "Recipient")
        draft     == StubKeyPoints(inp)
    IN  [ user_input |-> inp,
          parsed_data |-> [ recipient_name |-> recipient,
                            email_purpose |-> StubPurpose(inp),
                            key_points |-> StubKeyPoints(inp),
                            tone_preference |-> tone,
                            context |-> "stubbed" ],
          recipient |-> recipient,
          intent |-> StubIntent(inp),
          draft |-> draft,
          tone |-> tone,
          personalized_draft |-> draft,
          final_draft |-> draft,
          metadata |-> [source |-> "stub", model |-> "None"] ]

_generate_stub_state(inp, tone) ==
    LET recipient == StubRecipient(StrippedLines(inp), 1, "Recipient")
        draft     == StubDraft(inp)
    IN  [ user_input |-> inp,
          parsed_data |-> [ recipient_name |-> recipient,
                            email_purpose |-> StubPurpose(inp),
                            key_points |-> StubKeyPoints(inp),
                            tone_preference |-> tone,
                            context |-> "stubbed" ],
          recipient |-> recipient,
          intent |-> StubIntent(inp),
          draft |-> draft,
          tone |-> tone,
          personalized_draft |-> draft,
          final_draft |-> draft,
          metadata |-> [source |-> "stub", model |-> "None"] ]

----------------------------------------------------------------------------
(* Error texts and quota classification *)

ErrTransient == << "temporary", "failure" >>
ErrQuota     == << "429", "ResourceExhausted:", "You exceeded", "your current", "quota" >>
ErrBlank     == << >>

KeyErrorText(k) == << k >>

\* raise LLMWrapperError(f"LLM call failed after {attempt} attempts: {exc}")
WrapperErrorText(text) == << "LLM call failed after", "attempts:" >> \o text

\* str.lower() on the tokens that carry upper-case letters
Lower(tok) ==
    CASE tok = "ResourceExhausted:"    -> "resourceexhausted:"
      [] tok = "You exceeded"          -> "you exceeded"
      [] tok = "LLM call failed after" -> "llm call failed after"
      [] OTHER                         -> tok

LowerText(text) == [i \in 1..Len(text) |-> Lower(text[i])]

\* which of the keywords occur as a substring of a (lower-cased) token
KeywordsIn(tok) ==
    CASE tok = "429"                -> {"429"}
      [] tok = "resourceexhausted:" -> {"resourceexhausted"}
      [] tok = "you exceeded"       -> {"you exceeded"}
      [] tok = "quota"              -> {"quota"}
      [] OTHER                      -> {}

QuotaKeywords == {"quota", "429", "resourceexhausted", "you exceeded", "generate_content_free_tier"}

_is_quota_error(text) ==
    LET msg == LowerText(text)
    IN  IF Len(msg) = 0 THEN FALSE
        ELSE \E i \in 1..Len(msg) : KeywordsIn(msg[i]) \cap QuotaKeywords # {}

----------------------------------------------------------------------------
(* The agents.  Each agent maps the state and the behaviour of its         *)
(* environment during the call to either a raised error or the dict of     *)
(* updates it returns.                                                     *)
(*   "ok"           the agent's provider call (if it makes one) succeeds   *)
(*   "llm_error"    the provider call raises a transient error             *)
(*   "llm_quota"    the provider call raises a quota error                 *)
(*   "forced"       the agent's __call__ raises a transient error          *)
(*   "forced_quota" the agent's __call__ raises a quota error              *)
(*   "forced_blank" the agent's __call__ raises an error with no message   *)

StageOutcomes == {"ok", "llm_error", "llm_quota", "forced", "forced_quota", "forced_blank"}

RouterDecisions == {"continue", "retry", "fallback"}

Raised(text)  == [raised |-> TRUE, err |-> text, patch |-> << >>]
Returned(upd) == [raised |-> FALSE, err |-> << >>, patch |-> upd]

ForcedText(o) ==
    CASE o = "forced"       -> ErrTransient
      [] o = "forced_quota" -> ErrQuota
      [] OTHER              -> ErrBlank

LLMErrorText(o) ==
    IF o = "llm_quota" THEN WrapperErrorText(ErrQuota) ELSE WrapperErrorText(ErrTransient)

IsForced(o) == o \in {"forced", "forced_quota", "forced_blank"}
LLMFails(o) == o \in {"llm_error", "llm_quota"}

\* InputParserAgent._fallback_parse / the defaults parse() fills in
RECURSIVE RecipientHint(_, _)
RecipientHint(inp, n) ==
    IF n > Len(inp) THEN "Recipient"
    ELSE IF inp[n].label \in {"recipient", "to"}
         THEN (IF inp[n].val # "" THEN inp[n].val ELSE "Recipient")
         ELSE RecipientHint(inp, n + 1)

ParsedInput(inp) ==
    [ recipient_name |-> RecipientHint(inp, 1),
      email_purpose |-> InputText(inp),
      key_points |-> << InputText(inp) >>,
      tone_preference |-> "formal",
      context |-> InputText(inp) ]

InputParserAgent(s, o) ==
    IF IsForced(o) THEN Raised(ForcedText(o))
    ELSE IF LLMFails(o) THEN Raised(LLMErrorText(o))
    ELSE LET parsed == ParsedInput(s["user_input"])
         IN  Returned([ parsed_data |-> parsed,
                        recipient |-> parsed.recipient_name,
                        intent_hint |-> parsed.email_purpose ])

IntentDetectorAgent(s, o) ==
    IF IsForced(o) THEN Raised(ForcedText(o))
    ELSE IF "parsed_data" \notin DOMAIN s THEN Raised(KeyErrorText("'parsed_data'"))
    ELSE IF LLMFails(o) THEN Returned([intent |-> "outreach"])
    ELSE Returned([intent |-> StubIntent(s["user_input"])])

\* DraftWriterAgent._fallback_draft
FallbackDraft(parsed) ==
    << "Dear ", parsed.recipient_name, ",", "I hope this email finds you well." >>
    \o parsed.email_purpose
    \o << "I look forward to hearing from you.", "Best regards" >>

DraftWriterAgent(s, o) ==
    IF IsForced(o) THEN Raised(ForcedText(o))
    ELSE IF "intent" \notin DOMAIN s THEN Raised(KeyErrorText("'intent'"))
    ELSE IF "parsed_data" \notin DOMAIN s THEN Raised(KeyErrorText("'parsed_data'"))
    ELSE IF LLMFails(o) THEN Returned([draft |-> FallbackDraft(s["parsed_data"])])
    ELSE Returned([draft |-> << "Dear ", s["parsed_data"].recipient_name, ",", "llm_body", "Best regards" >>])

ToneStylistAgent(s, o) ==
    IF IsForced(o) THEN Raised(ForcedText(o))
    ELSE IF "draft" \notin DOMAIN s THEN Raised(KeyErrorText("'draft'"))
    ELSE IF LLMFails(o) THEN Returned([styled_draft |-> s["draft"]])
    ELSE Returned([styled_draft |-> << "styled" >> \o s["draft"]])

PersonalizationAgent(s, o) ==
    IF IsForced(o) THEN Raised(ForcedText(o))
    ELSE LET d == Get(s, "styled_draft", Get(s, "draft", << >>))
         IN  IF LLMFails(o) THEN Returned([personalized_draft |-> d \o << "Best regards" >>])
             ELSE Returned([personalized_draft |-> << "personalized" >> \o d])

\* ReviewAgent._quick_validation: a provider-written body counts 40 words,
\* every other token one word
RECURSIVE WordCount(_)
WordCount(d) ==
    IF Len(d) = 0 THEN 0
    ELSE (IF Head(d) = "llm_body" THEN 40 ELSE IF Head(d) = "" THEN 0 ELSE 1) + WordCount(Tail(d))

MinWords == 30

QuickValidation(d) ==
    (IF WordCount(d) < MinWords THEN {"Email too short"} ELSE {})
    \cup (IF "Dear " \notin SeqToSet(d) THEN {"Missing greeting"} ELSE {})
    \cup (IF "Best regards" \notin SeqToSet(d) THEN {"Missing closing"} ELSE {})

ReviewAgent(s, o) ==
    IF IsForced(o) THEN Raised(ForcedText(o))
    ELSE LET d      == Get(s, "personalized_draft", Get(s, "draft", << >>))
             issues == QuickValidation(d)
         IN  IF issues = {}
             THEN Returned([ final_draft |-> d,
                             metadata |-> [approved |-> TRUE, issues |-> {}, improved |-> FALSE] ])
             ELSE IF LLMFails(o)
             THEN Returned([ final_draft |-> d,
                             metadata |-> [approved |-> TRUE,
                                           issues |-> {"Review service temporarily unavailable"},
                                           improved |-> FALSE] ])
             ELSE Returned([ final_draft |-> << "reviewed" >> \o d,
                             metadata |-> [approved |-> TRUE, issues |-> issues, improved |-> TRUE] ])

\* RefinementAgent._local_cleanup: drop a repeated signature and repeated lines
RECURSIVE LocalCleanup(_, _)
LocalCleanup(d, n) ==
    IF n = 0 THEN << >>
    ELSE LET rest == LocalCleanup(d, n - 1)
         IN  IF d[n] = "Best regards" /\ "Best regards" \in SeqToSet(rest) THEN rest
             ELSE IF d[n] # "" /\ Len(rest) > 0 /\ rest[Len(rest)] = d[n] THEN rest
             ELSE Append(rest, d[n])

RefinementAgent(s, o) ==
    IF IsForced(o) THEN Raised(ForcedText(o))
    ELSE LET d == Get(s, "final_draft", << >>)
         IN  IF Len(d) = 0
             THEN Returned([final_draft |-> Get(s, "draft", << >>)])
             ELSE Returned([ final_draft |-> (IF LLMFails(o) THEN LocalCleanup(d, Len(d))
                                              ELSE << "refined" >> \o d),
                             metadata |-> [refined |-> TRUE] ])

\* RouterAgent.route_next_step
RouteNextStep(s) ==
    IF "error" \in DOMAIN s THEN "retry"
    ELSE IF "needs_improvement" \in DOMAIN s THEN "retry"
    ELSE IF "issues" \in DOMAIN Get(s, "metadata", << >>) /\ Get(s, "metadata", << >>)["issues"] # {}
         THEN "retry"
    ELSE "continue"

\* RouterAgent.create_fallback_draft
RouterFallbackDraft(s) ==
    LET parsed == Get(s, "parsed_data", [recipient_name |-> "there", email_purpose |-> << "reach out" >>])
    IN  << "Dear ", parsed.recipient_name, ",", "I hope this email finds you well.", "I wanted to" >>
        \o parsed.email_purpose
        \o << "I look forward to hearing from you.", "Best regards" >>

\* dec is the decision the provider returns to RouterAgent._llm_decide
RouterAgent(s, o, dec) ==
    IF IsForced(o) THEN Raised(ForcedText(o))
    ELSE IF LLMFails(o)
    THEN Returned([ routing_decision |-> RouteNextStep(s),
                    metadata |-> [llm_router_used |-> FALSE, llm_router_error |-> LLMErrorText(o)] ])
    ELSE IF dec = "fallback"
    THEN Returned([ final_draft |-> RouterFallbackDraft(s),
                    metadata |-> [fallback_used |-> TRUE, reason |-> "Max retries exceeded",
                                  approved |-> FALSE,
                                  issues |-> {"Fallback draft used due to processing errors"}],
                    routing_decision |-> "fallback" ])
    ELSE Returned([ routing_decision |-> dec,
                    metadata |-> [llm_router_used |-> TRUE, decision_reason |-> "reason"] ])

\* default_graph_order
Order == << "input_parser", "intent_detector", "draft_writer", "tone_stylist",
            "personalization", "review", "refinement", "router" >>

NumStages == Len(Order)

\* agents.get(node_name)(state)
RunAgent(name, s, o, dec) ==
    CASE name = "input_parser"    -> InputParserAgent(s, o)
      [] name = "intent_detector" -> IntentDetectorAgent(s, o)
      [] name = "draft_writer"    -> DraftWriterAgent(s, o)
      [] name = "tone_stylist"    -> ToneStylistAgent(s, o)
      [] name = "personalization" -> PersonalizationAgent(s, o)
      [] name = "review"          -> ReviewAgent(s, o)
      [] name = "refinement"      -> RefinementAgent(s, o)
      [] OTHER                    -> RouterAgent(s, o, dec)

----------------------------------------------------------------------------
(* execute_workflow *)

UserIds == {"default"}

StepRecord(name, raised, quota, err, pre) ==
    [stage |-> name, raised |-> raised, quota |-> quota, err |-> err, pre |-> pre]

NoStep == StepRecord("none", FALSE, FALSE, << >>, << >>)

InitialState(inp, uid) ==
    [ user_input |-> inp, tone |-> "formal", user_id |-> uid,
      metadata |-> [source |-> "llm", model |-> GeminiModel] ]

SnapshotKeys == {"parsed_data", "intent", "draft", "tone", "personalized_draft", "final_draft", "metadata"}

QuotaNote(text) ==
    [ message |-> "Detected Gemini quota / 429 error and falling back to local stubbed generator.",
      original_error |-> text ]

\* OnStageError with the early return missing: the loop goes on after the fallback
OnStageError_KeepsGoing(s, name, text, tr, dev) ==
    LET notes == Merge(Get(s, "review_notes", << >>), name :> [error |-> text])
        s1    == Merge(s, [review_notes |-> notes])
    IN  IF _is_quota_error(text)
        THEN LET notes2 == Merge(notes, "gemini_quota_fallback" :> QuotaNote(text))
                 stub   == _generate_stub_state(s["user_input"], Get(s1, "tone", "formal"))
                 smeta  == Merge(Get(stub, "metadata", << >>),
                                 [source |-> "stub", fallback_from_model |-> GeminiModel])
             IN  [ returns |-> FALSE,
                   state |-> Merge(stub, [review_notes |-> notes2, metadata |-> smeta]) ]
        ELSE [ returns |-> FALSE, state |-> s1 ]

\* OnStageError with the stub's notes not updated from the state's notes
OnStageError_DropsNotes(s, name, text, tr, dev) ==
    LET notes == Merge(Get(s, "review_notes", << >>), name :> [error |-> text])
        s1    == Merge(s, [review_notes |-> notes])
    IN  IF _is_quota_error(text)
        THEN LET stub   == _generate_stub_state(s["user_input"], Get(s1, "tone", "formal"))
                 snotes == (name :> [error |-> text]) @@ ("gemini_quota_fallback" :> QuotaNote(text))
                 smeta  == Merge(Get(stub, "metadata", << >>),
                                 [source |-> "stub", fallback_from_model |-> GeminiModel])
                 out    == Merge(stub, [review_notes |-> snotes, metadata |-> smeta])
             IN  [ returns |-> TRUE,
                   state |-> IF dev THEN Merge(out, [developer_trace |-> tr]) ELSE out ]
        ELSE [ returns |-> FALSE, state |-> s1 ]

\* OnStageError recording a non-quota error under a top-level "error" key
OnStageError_TopLevelError(s, name, text, tr, dev) ==
    LET notes == Merge(Get(s, "review_notes", << >>), name :> [error |-> text])
        s1    == Merge(s, [review_notes |-> notes])
    IN  IF _is_quota_error(text)
        THEN LET notes2 == Merge(notes, "gemini_quota_fallback" :> QuotaNote(text))
                 stub   == _generate_stub_state(s["user_input"], Get(s1, "tone", "formal"))
                 snotes == Merge(Get(stub, "review_notes", << >>), notes2)
                 smeta  == Merge(Get(stub, "metadata", << >>),
                                 [source |-> "stub", fallback_from_model |-> GeminiModel])
                 out    == Merge(stub, [review_notes |-> snotes, metadata |-> smeta])
             IN  [ returns |-> TRUE,
                   state |-> IF dev THEN Merge(out, [developer_trace |-> tr]) ELSE out ]
        ELSE [ returns |-> FALSE, state |-> Merge(s, [error |-> text]) ]

\* the "except Exception as e" branch of the loop: the state the loop goes
\* on with, or the state returned at once
OnStageError(s, name, text, tr, dev) ==
    LET notes == Merge(Get(s, "review_notes", << >>), name :> [error |-> text])
        s1    == Merge(s, [review_notes |-> notes])
    IN  IF _is_quota_error(text)
        THEN LET notes2 == Merge(notes, "gemini_quota_fallback" :> QuotaNote(text))
                 stub   == _generate_stub_state(s["user_input"], Get(s1, "tone", "formal"))
                 snotes == Merge(Get(stub, "review_notes", << >>), notes2)
                 smeta  == Merge(Get(stub, "metadata", << >>),
                                 [source |-> "stub", fallback_from_model |-> GeminiModel])
                 out    == Merge(stub, [review_notes |-> snotes, metadata |-> smeta])
             IN  [ returns |-> TRUE,
                   state |-> IF dev THEN Merge(out, [developer_trace |-> tr]) ELSE out ]
        ELSE [ returns |-> FALSE, state |-> s1 ]

\* the "try" branch of the loop: merge the updates
OnStageOk(s, patch) == Merge(s, patch)

\* execute_workflow up to the loop (use_stub returns the stub at once)
StartWorkflow(inp, uid, use_stub, dev) ==
    /\ pphase = "idle"
    /\ pdev' = dev
    /\ ptrace' = << >>
    /\ ran' = << >>
    /\ quotaAt' = 0
    /\ healthy' = TRUE
    /\ lastStep' = NoStep
    /\ IF use_stub
       THEN /\ pstate' = _generate_stub_state(inp, "formal")
            /\ pphase' = "returned"
            /\ pidx' = 0
       ELSE /\ pstate' = InitialState(inp, uid)
            /\ pphase' = "running"
            /\ pidx' = 1

\* one iteration of "for node_name in order"
RunStage(o, dec) ==
    /\ pphase = "running"
    /\ pidx <= NumStages
    /\ LET name == Order[pidx]
           r    == RunAgent(name, pstate, o, dec)
       IN  /\ ran' = Append(ran, name)
           /\ pdev' = pdev
           /\ healthy' = (healthy /\ o = "ok" /\ ~r.raised)
           /\ IF ~r.raised
              THEN LET s1 == OnStageOk(pstate, r.patch)
                   IN  /\ pstate' = s1
                       /\ ptrace' = IF pdev
                                    THEN Append(ptrace, [agent |-> name,
                                                         snapshot |-> Restrict(s1, SnapshotKeys)])
                                    ELSE ptrace
                       /\ pidx' = pidx + 1
                       /\ pphase' = "running"
                       /\ quotaAt' = quotaAt
                       /\ lastStep' = StepRecord(name, FALSE, FALSE, << >>, pstate)
              ELSE LET h == OnStageError(pstate, name, r.err, ptrace, pdev)
                   IN  /\ pstate' = h.state
                       /\ ptrace' = ptrace
                       /\ pidx' = pidx + 1
                       /\ pphase' = IF h.returns THEN "returned" ELSE "running"
                       /\ quotaAt' = IF quotaAt = 0 /\ _is_quota_error(r.err) THEN pidx ELSE quotaAt
                       /\ lastStep' = StepRecord(name, TRUE, _is_quota_error(r.err), r.err, pstate)

\* the end of the loop: attach the trace and return the state
ReturnWorkflow ==
    /\ pphase = "running"
    /\ pidx = NumStages + 1
    /\ pstate' = IF pdev THEN Merge(pstate, [developer_trace |-> ptrace]) ELSE pstate
    /\ pphase' = "returned"
    /\ lastStep' = StepRecord("return", FALSE, FALSE, << >>, pstate)
    /\ UNCHANGED <<pidx, ptrace, pdev, ran, quotaAt, healthy>>

\* generate_email: the simplified dict built from the returned state
FirstTruthy(s, keys) ==
    IF \E i \in 1..Len(keys) : NonEmptyText(Get(s, keys[i], << >>))
    THEN LET i == CHOOSE j \in 1..Len(keys) :
                     /\ NonEmptyText(Get(s, keys[j], << >>))
                     /\ \A m \in 1..(j - 1) : ~NonEmptyText(Get(s, keys[m], << >>))
         IN  s[keys[i]]
    ELSE << >>

generate_email(s) ==
    [ final_draft |-> FirstTruthy(s, << "final_draft", "personalized_draft", "styled_draft", "draft" >>),
      metadata |-> Get(s, "metadata", << >>),
      review_notes |-> Get(s, "review_notes", << >>) ]

PipelineInit ==
    /\ pphase = "idle"
    /\ pstate = << >>
    /\ pidx = 0
    /\ ptrace = << >>
    /\ pdev = FALSE
    /\ ran = << >>
    /\ quotaAt = 0
    /\ healthy = TRUE
    /\ lastStep = NoStep

PipelineNext ==
    \/ \E inp \in RawInputs, uid \in UserIds, use_stub \in BOOLEAN, dev \in BOOLEAN :
           StartWorkflow(inp, uid, use_stub, dev)
    \/ \E o \in StageOutcomes, dec \in RouterDecisions : RunStage(o, dec)
    \/ ReturnWorkflow


----------------------------------------------------------------------------
(* Properties of the workflow executor *)

ReviewNotes(s) == Get(s, "review_notes", << >>)

MetadataSource(s) == Get(Get(s, "metadata", << >>), "source", "")

\* C1: for every raw input and every combination of stage failures,
\* execute returns a result whose draft (the best available of final_draft,
\* personalized_draft, styled_draft and draft) is non-empty.
C1_DraftNonEmpty ==
    pphase = "returned" => NonEmptyText(generate_email(pstate).final_draft)

\* C2: when the agent at index k raises a quota-classified error, the
\* executor has returned right after that agent: k agents were invoked, none
\* after it, and the returned state is the stub generator's.
C2_NoStageAfterQuota ==
    quotaAt # 0 =>
        /\ pphase = "returned"
        /\ Len(ran) = quotaAt
        /\ ran = Prefix(Order, quotaAt)
        /\ pstate["draft"] = StubDraft(pstate["user_input"])

C2_Witness ==
    /\ pphase = "returned"
    /\ quotaAt = 3
    /\ lastStep.stage = "draft_writer"

\* C3 as stated: on a quota error at agent k the result is marked as coming
\* from the fallback generator, keeps every earlier error-log entry, and the
\* reserved error-log entry records the originating agent's name and the raw
\* error text.
C3_ReservedKeyNamesStage ==
    quotaAt # 0 =>
        LET notes == ReviewNotes(pstate)
        IN  /\ MetadataSource(pstate) = "stub"
            /\ "gemini_quota_fallback" \in DOMAIN notes
            /\ notes["gemini_quota_fallback"].original_error = lastStep.err
            /\ \E f \in DOMAIN notes["gemini_quota_fallback"] \ {"original_error"} :
                   notes["gemini_quota_fallback"][f] = Order[quotaAt]

\* C3 (amended): on a quota error at agent k the result is marked as coming
\* from the stub generator, keeps every error-log entry recorded before agent
\* k, records the raw error text under the reserved key, and records the
\* originating agent by an entry of its own, keyed by the agent's name and
\* holding the same error text.
C3_QuotaFallbackResult ==
    quotaAt # 0 =>
        LET notes == ReviewNotes(pstate)
            pre   == ReviewNotes(lastStep.pre)
        IN  /\ MetadataSource(pstate) = "stub"
            /\ \A k \in DOMAIN pre : k \in DOMAIN notes /\ notes[k] = pre[k]
            /\ "gemini_quota_fallback" \in DOMAIN notes
            /\ notes["gemini_quota_fallback"].original_error = lastStep.err
            /\ "gemini_quota_fallback" \notin DOMAIN pre
            /\ Order[quotaAt] \in DOMAIN notes
            /\ notes[Order[quotaAt]] = [error |-> lastStep.err]

C3_Witness ==
    /\ quotaAt = 3
    /\ DOMAIN ReviewNotes(lastStep.pre) = {"input_parser", "intent_detector"}
    /\ "input_parser" \in DOMAIN ReviewNotes(pstate)

\* C4: when an agent raises an error that is not quota-classified, the error
\* text is recorded under the agent's name in the error log, every other
\* field of the state is as it was before the agent ran, and the loop goes on
\* with the next agent in order (so a run without a quota error invokes every
\* agent, in order).
C4_NonQuotaErrorRecorded ==
    /\ (lastStep.raised /\ ~lastStep.quota) =>
           LET pre == lastStep.pre
           IN  /\ pphase = "running"
               /\ pidx = Len(ran) + 1
               /\ ran[Len(ran)] = lastStep.stage
               /\ DOMAIN pstate = (DOMAIN pre) \cup {"review_notes"}
               /\ \A k \in (DOMAIN pre) \ {"review_notes"} : pstate[k] = pre[k]
               /\ ReviewNotes(pstate) =
                      Merge(ReviewNotes(pre), lastStep.stage :> [error |-> lastStep.err])
    /\ ran = Prefix(Order, Len(ran))
    /\ (pphase = "returned" /\ quotaAt = 0 /\ pidx # 0) => ran = Order

C4_Witness ==
    /\ lastStep.raised /\ ~lastStep.quota
    /\ lastStep.stage = "tone_stylist"
    /\ "draft" \in DOMAIN pstate
    /\ lastStep.err = ErrBlank

\* C5: on a run in which no agent raises and every provider call succeeds,
\* the returned state's metadata still carries the source marker written at
\* the start of the run.
C5_SourceSurvivesHealthyRun ==
    (pphase = "returned" /\ healthy /\ Len(ran) = NumStages) => MetadataSource(pstate) = "llm"

----------------------------------------------------------------------------
(* RateLimiter.  Times are in hundredths of a second.                      *)

Window          == 6000   \* 60.0 s
ConcurrencyWait == 5      \* 0.05 s
MinWait         == 1      \* 0.01 s
FallbackWait    == 25     \* 0.25 s
JitterMax       == 15     \* jitter_ms = 150

\* the limiter's configuration and the callers
Rpm            == 2
Tpm            == 2
MaxConcurrency == 1
NumCallers     == 2
MaxTokens      == 3
\* how far the clock runs, the step it advances by, how many admissions are recorded
MaxTime        == 9000
TickStep       == 3000
MaxAdmissions  == 3

Callers      == 1..NumCallers
\* the estimates a caller passes: below zero, none, small, and the largest,
\* which is above tokens_per_minute
TokenChoices == {-1, 0, 1, MaxTokens}

Max(a, b) == IF a > b THEN a ELSE b
Min(a, b) == IF a < b THEN a ELSE b

RECURSIVE DropWhile(_, _, _)
\* "while q and stamp(q[0]) < bound: q.popleft()"; pairs is TRUE for the token deque
DropWhile(q, bound, pairs) ==
    IF Len(q) > 0 /\ (IF pairs THEN q[1][1] ELSE q[1]) < bound
    THEN DropWhile(Tail(q), bound, pairs)
    ELSE q

\* _purge with "<=" in place of "<": an entry exactly one window old is dropped
RECURSIVE DropWhileOrEqual(_, _, _)
DropWhileOrEqual(q, bound, pairs) ==
    IF Len(q) > 0 /\ (IF pairs THEN q[1][1] ELSE q[1]) <= bound
    THEN DropWhileOrEqual(Tail(q), bound, pairs)
    ELSE q

PurgeOrEqual(q, t, pairs) == DropWhileOrEqual(q, t - Window, pairs)

\* _purge, for one of the two deques
Purge(q, t, pairs) == DropWhile(q, t - Window, pairs)

RECURSIVE SumTokens(_)
SumTokens(q) == IF Len(q) = 0 THEN 0 ELSE q[1][2] + SumTokens(Tail(q))

RECURSIVE TokenWaitUntil(_, _, _, _)
\* the loop over _token_timestamps: the expiry of the earliest entry that frees
\* enough tokens, or -1 for None
TokenWaitUntil(q, used, cumulative, est) ==
    IF Len(q) = 0 THEN -1
    ELSE LET c == cumulative + q[1][2]
         IN  IF used - c + est <= Tpm THEN q[1][1] + Window
             ELSE TokenWaitUntil(Tail(q), used, c, est)

\* the body of "with self._lock" in acquire: the decision taken at time t
\* on the purged deques
Admission(reqs, toks, inflight, est, t) ==
    IF inflight >= MaxConcurrency
    THEN [admit |-> FALSE, wait |-> ConcurrencyWait]
    ELSE IF Len(reqs) >= Rpm
    THEN [admit |-> FALSE, wait |-> Max(MinWait, (reqs[1] + Window) - t)]
    ELSE LET used == SumTokens(toks)
         IN  IF used + est > Tpm
             THEN LET until == TokenWaitUntil(toks, used, 0, est)
                  IN  [admit |-> FALSE,
                       wait |-> IF until = -1 THEN FallbackWait ELSE Max(MinWait, until - t)]
             ELSE [admit |-> TRUE, wait |-> 0]

\* time.sleep(wait + jitter): the clock takes the values k * TickStep only, so
\* the sleeper resumes at the first clock value that is not before t
WakeInstant(t) == ((t + TickStep - 1) \div TickStep) * TickStep

\* acquire(): est_tokens = max(0, estimated_input_tokens), then the loop starts
BeginAcquire(c, n) ==
    /\ tpc[c] = "idle"
    /\ tpc' = [tpc EXCEPT ![c] = "waiting"]
    /\ test' = [test EXCEPT ![c] = Max(0, n)]
    /\ twake' = [twake EXCEPT ![c] = now]
    /\ UNCHANGED <<now, req_timestamps, token_timestamps, in_flight, admitted>>

\* one pass of the "while True" loop of acquire: the check under the lock,
\* then either the return or the sleep outside the lock
AdmissionCheck(c, jitter) ==
    /\ tpc[c] = "waiting"
    /\ now >= twake[c]
    /\ Len(admitted) < MaxAdmissions
    /\ LET reqs == Purge(req_timestamps, now, FALSE)
           toks == Purge(token_timestamps, now, TRUE)
           a    == Admission(reqs, toks, in_flight, test[c], now)
       IN  IF a.admit
           THEN /\ req_timestamps' = Append(reqs, now)
                /\ token_timestamps' = IF test[c] # 0 THEN Append(toks, <<now, test[c]>>) ELSE toks
                /\ in_flight' = in_flight + 1
                /\ tpc' = [tpc EXCEPT ![c] = "holding"]
                /\ admitted' = Append(admitted, <<now, test[c]>>)
                /\ twake' = [twake EXCEPT ![c] = 0]
           ELSE /\ req_timestamps' = reqs
                /\ token_timestamps' = toks
                /\ twake' = [twake EXCEPT ![c] = WakeInstant(now + a.wait + jitter)]
                /\ UNCHANGED <<in_flight, tpc, admitted>>
    /\ UNCHANGED <<now, test>>

\* release()
Release(c) ==
    /\ tpc[c] = "holding"
    /\ in_flight' = IF in_flight > 0 THEN in_flight - 1 ELSE in_flight
    /\ tpc' = [tpc EXCEPT ![c] = "idle"]
    /\ test' = [test EXCEPT ![c] = 0]
    /\ UNCHANGED <<now, req_timestamps, token_timestamps, twake, admitted>>

\* the clock advances
Tick ==
    /\ now + TickStep <= MaxTime
    /\ now' = now + TickStep
    /\ UNCHANGED <<req_timestamps, token_timestamps, in_flight, tpc, test, twake, admitted>>

LimiterInit ==
    /\ now = 0
    /\ req_timestamps = << >>
    /\ token_timestamps = << >>
    /\ in_flight = 0
    /\ tpc = [c \in Callers |-> "idle"]
    /\ test = [c \in Callers |-> 0]
    /\ twake = [c \in Callers |-> 0]
    /\ admitted = << >>

LimiterNext ==
    \/ \E c \in Callers, n \in TokenChoices : BeginAcquire(c, n)
    \/ \E c \in Callers, jitter \in {0, JitterMax} : AdmissionCheck(c, jitter)
    \/ \E c \in Callers : Release(c)
    \/ Tick

----------------------------------------------------------------------------
(* RateLimiter at the grain of its lock.  "with self._lock" is entered,    *)
(* the check is made on what the thread reads, and the block is left with  *)
(* the writes of the decision; time.sleep and the provider call are        *)
(* outside the block.                                                      *)

NoDecision == [made |-> FALSE, admit |-> FALSE, wait |-> 0, t |-> 0]

\* threading.Lock: the block is entered only while no thread is inside
LockAvailable_Always(holders) == TRUE

LockAvailable(holders) == holders = {}

\* the lock is given up when the "with" block is left, before time.sleep
KeepsLock_WhileSleeping(admit) == ~admit

KeepsLock(admit) == FALSE

\* a thread enters "with self._lock": in acquire once its sleep is over, in
\* release when it gives its slot back
LockEnter(c) ==
    /\ c \notin inside
    /\ LockAvailable(inside)
    /\ \/ tpc[c] = "waiting" /\ now >= twake[c] /\ Len(admitted) < MaxAdmissions
       \/ tpc[c] = "holding"
    /\ inside' = inside \cup {c}
    /\ UNCHANGED <<decided, lvars>>

\* inside the block of acquire: now = time.time(), _purge(now) and the tests
LockedCheck(c) ==
    /\ c \in inside
    /\ tpc[c] = "waiting"
    /\ now >= twake[c]
    /\ ~decided[c].made
    /\ LET reqs == Purge(req_timestamps, now, FALSE)
           toks == Purge(token_timestamps, now, TRUE)
           a    == Admission(reqs, toks, in_flight, test[c], now)
       IN  /\ req_timestamps' = reqs
           /\ token_timestamps' = toks
           /\ decided' = [decided EXCEPT ![c] = [made |-> TRUE, admit |-> a.admit,
                                                 wait |-> a.wait, t |-> now]]
    /\ UNCHANGED <<inside, now, in_flight, tpc, test, twake, admitted>>

\* the end of the block of acquire: the appends and the increment, or the
\* wait that time.sleep is given
LockedCommit(c, jitter) ==
    /\ c \in inside
    /\ decided[c].made
    /\ IF decided[c].admit
       THEN /\ req_timestamps' = Append(req_timestamps, decided[c].t)
            /\ token_timestamps' = IF test[c] # 0
                                   THEN Append(token_timestamps, <<decided[c].t, test[c]>>)
                                   ELSE token_timestamps
            /\ in_flight' = in_flight + 1
            /\ tpc' = [tpc EXCEPT ![c] = "holding"]
            /\ admitted' = Append(admitted, <<decided[c].t, test[c]>>)
            /\ twake' = [twake EXCEPT ![c] = 0]
       ELSE /\ twake' = [twake EXCEPT ![c] = WakeInstant(now + decided[c].wait + jitter)]
            /\ UNCHANGED <<req_timestamps, token_timestamps, in_flight, tpc, admitted>>
    /\ inside' = IF KeepsLock(decided[c].admit) THEN inside ELSE inside \ {c}
    /\ decided' = [decided EXCEPT ![c] = NoDecision]
    /\ UNCHANGED <<now, test>>

\* the block of release
LockedRelease(c) ==
    /\ c \in inside
    /\ Release(c)
    /\ inside' = inside \ {c}
    /\ UNCHANGED decided

LockInit ==
    /\ inside = {}
    /\ decided = [c \in Callers |-> NoDecision]

LockNext ==
    \/ \E c \in Callers, n \in {0, 1} : BeginAcquire(c, n) /\ UNCHANGED <<inside, decided>>
    \/ \E c \in Callers : LockEnter(c)
    \/ \E c \in Callers : LockedCheck(c)
    \/ \E c \in Callers, jitter \in {0, JitterMax} : LockedCommit(c, jitter)
    \/ \E c \in Callers : LockedRelease(c)
    \/ Tick /\ UNCHANGED <<inside, decided>>

----------------------------------------------------------------------------
(* LLMWrapper.run_with_retries.  Delays are in hundredths of a second.     *)
(* An error text is a sequence of tokens; a token is a word (num = -1) or  *)
(* a number (its value in hundredths of a second), with the count of its   *)
(* characters and whether an "s" follows the number directly.              *)

Word(w)      == [w |-> w, num |-> -1, s |-> FALSE]
Num(n, sfx)  == [w |-> "#", num |-> n, s |-> sfx]
NewLine      == Word("\n")
LongWord     == Word("in a little while, after the service has recovered,")

TextPlain    == << Word("temporary"), Word("failure") >>
TextHint     == << Word("Please"), Word("retry in"), Num(250, TRUE) >>
TextTinyHint == << Word("Please"), Word("retry in"), Num(2, TRUE) >>
TextZeroHint == << Word("retry in"), Num(0, TRUE) >>
TextAfter    == << Word("quota"), Word("retry_after="), Num(9000, FALSE) >>
TextTwoHints == << Word("seconds:"), Num(700, FALSE), Word("Retry in"), Num(300, TRUE) >>
TextCode     == << Word("Retry"), Word("later,"), Word("code"), Num(42900, FALSE) >>
TextNewLine  == << Word("retry"), NewLine, Num(500, FALSE) >>
TextFarAway  == << Word("retry"), LongWord, Num(500, FALSE) >>
TextNone     == << >>

ErrorTexts == { TextPlain, TextHint, TextTinyHint, TextZeroHint, TextAfter, TextTwoHints,
                TextCode, TextNewLine, TextFarAway, TextNone }

\* re.IGNORECASE on the words the patterns look for
FoldCase(w) ==
    CASE w = "Retry in" -> "retry in"
      [] w = "Retry"    -> "retry"
      [] OTHER          -> w

\* the number of characters of a word, as far as the 30-character gap of the
\* last-resort pattern can tell
CharLen(tok) == IF tok = LongWord THEN 52 ELSE 8

\* the patterns "<keyword>\s*(\d+(?:\.\d+)?)" of the list, in order; the first
\* two ("retry in ...s", "please retry in ...s") need the "s" after the number
Patterns == << [key |-> "retry in", s |-> TRUE],
               [key |-> "retry in", s |-> TRUE],
               [key |-> "retry_after=", s |-> FALSE],
               [key |-> "retry-after=", s |-> FALSE],
               [key |-> "seconds:", s |-> FALSE] >>

\* re.search(pat, text): the positions where the pattern matches
PatternMatches(text, pat) ==
    { i \in 1..(Len(text) - 1) :
        /\ FoldCase(text[i].w) = pat.key
        /\ text[i + 1].num # -1
        /\ (pat.s => text[i + 1].s) }

ContainsRetry(tok) == FoldCase(tok.w) \in {"retry", "retry in", "retry_after=", "retry-after="}

RECURSIVE GapLen(_, _, _)
GapLen(text, i, j) == IF i > j THEN 0 ELSE CharLen(text[i]) + 1 + GapLen(text, i + 1, j)

\* "retry[^\d\n\r]{0,30}(\d+(?:\.\d+)?)": pairs <<i, j>> of a "retry" and the
\* first number after it, with at most 30 characters and no line break between
LastResortMatches(text) ==
    { p \in (1..Len(text)) \X (1..Len(text)) :
        /\ p[1] < p[2]
        /\ ContainsRetry(text[p[1]])
        /\ text[p[2]].num # -1
        /\ \A m \in (p[1] + 1)..(p[2] - 1) : text[m].num = -1 /\ text[m] # NewLine
        /\ GapLen(text, p[1] + 1, p[2] - 1) <= 30 }

MinOf(S) == CHOOSE x \in S : \A y \in S : x <= y

\* _parse_retry_delay: the delay suggested by the text, -1 for None
_parse_retry_delay(text) ==
    IF Len(text) = 0 THEN -1
    ELSE IF \E k \in 1..Len(Patterns) : PatternMatches(text, Patterns[k]) # {}
    THEN LET k == MinOf({m \in 1..Len(Patterns) : PatternMatches(text, Patterns[m]) # {}})
             i == MinOf(PatternMatches(text, Patterns[k]))
         IN  text[i + 1].num
    ELSE IF LastResortMatches(text) # {}
    THEN LET i == MinOf({p[1] : p \in LastResortMatches(text)})
             j == MinOf({p[2] : p \in {q \in LastResortMatches(text) : q[1] = i}})
         IN  text[j].num
    ELSE -1

RECURSIVE Pow(_, _)
Pow(b, e) == IF e = 0 THEN 1 ELSE b * Pow(b, e - 1)

\* the retry policies: max_retries up to MaxRetries, and the timings of the
\* defaults (1.0 s, 2.0, 60.0 s) and of the two tests
MaxRetries == 3

Timings == { [ib |-> 100, bf |-> 2,  mb |-> 6000],
             [ib |-> 1,   bf |-> 1,  mb |-> 5],
             [ib |-> 50,  bf |-> 10, mb |-> 50] }

Policies == { [mr |-> m, ib |-> t.ib, bf |-> t.bf, mb |-> t.mb] : m \in 0..MaxRetries, t \in Timings }

\* "if attempt > mr" taken as "if attempt >= mr": one attempt too few
Exhausted_OffByOne(a, cfg) == a >= cfg.mr

\* "if attempt > mr": the retry budget is used up
Exhausted(a, cfg) == a > cfg.mr

\* the delay without the clamp to max_backoff and with the exponent one too high
ComputeDelay_Unclamped(text, a, cfg) ==
    LET suggested == _parse_retry_delay(text)
    IN  IF suggested # -1 /\ suggested > 0 THEN suggested
        ELSE Min(cfg.ib * Pow(cfg.bf, a), cfg.mb)

\* lines 180-193: the server-suggested delay if there is one, else the
\* exponential backoff, clamped to max_backoff
ComputeDelay(text, a, cfg) ==
    LET suggested == _parse_retry_delay(text)
        delay     == IF suggested # -1 /\ suggested > 0
                     THEN Min(suggested, cfg.mb)
                     ELSE Min(cfg.ib * Pow(cfg.bf, a - 1), cfg.mb)
    IN  IF delay > cfg.mb THEN cfg.mb ELSE delay

NoError == [attempts |-> 0, cause |-> << >>]

\* run_with_retries is called
StartRun(cfg) ==
    /\ rphase = "idle"
    /\ rphase' = "calling"
    /\ rcfg' = cfg
    /\ attempt' = 0
    /\ UNCHANGED <<rdelay, rresult, rerror, routcomes, rsleeps>>

\* one pass of the loop in which func returns
AttemptSucceeds ==
    /\ rphase = "calling"
    /\ attempt' = attempt + 1
    /\ routcomes' = Append(routcomes, [ok |-> TRUE, text |-> << >>])
    /\ rresult' = attempt + 1
    /\ rphase' = "returned"
    /\ UNCHANGED <<rcfg, rdelay, rerror, rsleeps>>

\* one pass of the loop in which func raises an exception with this text
AttemptFails(text) ==
    /\ rphase = "calling"
    /\ attempt' = attempt + 1
    /\ routcomes' = Append(routcomes, [ok |-> FALSE, text |-> text])
    /\ IF Exhausted(attempt + 1, rcfg)
       THEN /\ rphase' = "raised"
            /\ rerror' = [attempts |-> attempt + 1, cause |-> text]
            /\ UNCHANGED rdelay
       ELSE /\ rphase' = "sleeping"
            /\ rdelay' = ComputeDelay(text, attempt + 1, rcfg)
            /\ UNCHANGED rerror
    /\ UNCHANGED <<rcfg, rresult, rsleeps>>

\* time.sleep(delay) returns
SleepDone ==
    /\ rphase = "sleeping"
    /\ rsleeps' = Append(rsleeps, rdelay)
    /\ rphase' = "calling"
    /\ UNCHANGED <<rcfg, attempt, rdelay, rresult, rerror, routcomes>>

RetryInit ==
    /\ rphase = "idle"
    /\ rcfg = [mr |-> 0, ib |-> 0, bf |-> 0, mb |-> 0]
    /\ attempt = 0
    /\ rdelay = 0
    /\ rresult = 0
    /\ rerror = NoError
    /\ routcomes = << >>
    /\ rsleeps = << >>

RetryNext ==
    \/ \E cfg \in Policies : StartRun(cfg)
    \/ AttemptSucceeds
    \/ \E text \in ErrorTexts : AttemptFails(text)
    \/ SleepDone

----------------------------------------------------------------------------
(* LLMWrapper.invoke_chain: the limiter slot, the retry loop, the metrics  *)
(* record and the release of the slot.  Every caller of the limiter is a   *)
(* thread inside invoke_chain of one shared wrapper.                       *)

\* the largest retry budget a wrapper is built with
InvokeRetries == 1

NoInvoke == [phase |-> "idle", calls |-> 0, ok |-> FALSE, acq |-> 0, rel |-> 0,
             recs |-> 0, metrics_ok |-> TRUE]

\* "if self._rate_limiter is not None: self._rate_limiter.acquire(...)": with
\* a limiter the thread enters acquire, without one it goes on to the call
FirstPhase(lim) == IF lim THEN "acquiring" ELSE "calling"

\* the inner try of the finally block: metrics.record_call appends one
\* CallRecord, unless something in the block raises first
RecordsAppended_PerAttempt(metrics_ok, calls) == IF metrics_ok THEN calls ELSE 0

RecordsAppended(metrics_ok, calls) == IF metrics_ok THEN 1 ELSE 0

\* the innermost finally: release() whenever a limiter is configured
ReleasesSlot_OnlyAfterMetrics(lim, metrics_ok) == lim /\ metrics_ok

ReleasesSlot(lim, metrics_ok) == lim

\* how invoke_chain ends: "return result", or the re-raised LLMWrapperError
Outcome_CleanupFails(ok, metrics_ok) == IF ok /\ metrics_ok THEN "returned" ELSE "raised"

Outcome(ok, metrics_ok) == IF ok THEN "returned" ELSE "raised"

\* LLMWrapper.__init__: the retry budget, and a limiter only when
\* settings.enable_rate_limiter
NewLLMWrapper(enabled, mr) ==
    /\ rate_limiter = "unset"
    /\ rate_limiter' = IF enabled THEN "on" ELSE "none"
    /\ max_retries' = mr
    /\ UNCHANGED <<inv, lvars>>

\* invoke_chain up to the call of run_with_retries
InvokeStart(c, has_invoke, est) ==
    /\ rate_limiter # "unset"
    /\ inv[c].phase = "idle"
    /\ UNCHANGED <<rate_limiter, max_retries>>
    /\ IF ~has_invoke
       THEN /\ inv' = [inv EXCEPT ![c].phase = "rejected"]
            /\ UNCHANGED lvars
       ELSE /\ inv' = [inv EXCEPT ![c].phase = FirstPhase(rate_limiter = "on")]
            /\ IF FirstPhase(rate_limiter = "on") = "acquiring"
               THEN BeginAcquire(c, est)
               ELSE UNCHANGED lvars

\* one pass of the loop of acquire made by the thread
InvokeAcquire(c, jitter) ==
    /\ inv[c].phase = "acquiring"
    /\ AdmissionCheck(c, jitter)
    /\ inv' = IF tpc'[c] = "holding"
              THEN [inv EXCEPT ![c].phase = "calling", ![c].acq = @ + 1]
              ELSE inv
    /\ UNCHANGED <<rate_limiter, max_retries>>

\* one pass of the loop of run_with_retries: chain.invoke returns or raises
InvokeAttempt(c, ok) ==
    /\ inv[c].phase = "calling"
    /\ inv' = [inv EXCEPT ![c].calls = @ + 1,
                          ![c].ok = ok,
                          ![c].phase = IF ok \/ Exhausted(inv[c].calls + 1, [mr |-> max_retries])
                                       THEN "cleanup"
                                       ELSE "sleeping"]
    /\ UNCHANGED <<rate_limiter, max_retries, lvars>>

\* time.sleep(delay) of run_with_retries returns
InvokeSleepDone(c) ==
    /\ inv[c].phase = "sleeping"
    /\ inv' = [inv EXCEPT ![c].phase = "calling"]
    /\ UNCHANGED <<rate_limiter, max_retries, lvars>>

\* the finally block of invoke_chain, then the return or the re-raise
InvokeFinally(c, metrics_ok) ==
    /\ inv[c].phase = "cleanup"
    /\ inv' = [inv EXCEPT ![c].recs = @ + RecordsAppended(metrics_ok, inv[c].calls),
                          ![c].metrics_ok = metrics_ok,
                          ![c].rel = IF ReleasesSlot(rate_limiter = "on", metrics_ok) THEN @ + 1 ELSE @,
                          ![c].phase = Outcome(inv[c].ok, metrics_ok)]
    /\ IF ReleasesSlot(rate_limiter = "on", metrics_ok)
       THEN Release(c)
       ELSE UNCHANGED lvars
    /\ UNCHANGED <<rate_limiter, max_retries>>

InvokeInit ==
    /\ rate_limiter = "unset"
    /\ max_retries = 0
    /\ inv = [c \in Callers |-> NoInvoke]

InvokeNext ==
    \/ \E enabled \in BOOLEAN, mr \in 0..InvokeRetries : NewLLMWrapper(enabled, mr)
    \/ \E c \in Callers, has_invoke \in BOOLEAN, est \in {0, 1} : InvokeStart(c, has_invoke, est)
    \/ \E c \in Callers, jitter \in {0, JitterMax} : InvokeAcquire(c, jitter)
    \/ \E c \in Callers, ok \in BOOLEAN : InvokeAttempt(c, ok)
    \/ \E c \in Callers : InvokeSleepDone(c)
    \/ \E c \in Callers, metrics_ok \in BOOLEAN : InvokeFinally(c, metrics_ok)
    \/ Tick /\ UNCHANGED <<rate_limiter, max_retries, inv>>

----------------------------------------------------------------------------
(* MetricsManager: the module-level lock "_lock = threading.Lock()" and    *)
(* the calls made on the singleton by the threads of the process.  A       *)
(* threading.Lock has no owner: acquire blocks while the lock is held, by  *)
(* whichever thread, the calling one included.                             *)

VARIABLES
    m_lock,      \* 0 when _lock is free, else the thread that acquired it
    m_calls,     \* len(self._calls)
    mpc,         \* per thread: where it is in its call
    mctx,        \* per thread: the method session_summary was called from
    mres         \* per thread: what its last call returned

mvars == <<m_lock, m_calls, mpc, mctx, mres>>

\* record_call calls of a run
MaxCalls == 2

\* a thread calls record_call: it reaches "with _lock"
CallRecordCall(t) ==
    /\ mpc[t] = "idle"
    /\ m_calls < MaxCalls
    /\ mpc' = [mpc EXCEPT ![t] = "record"]
    /\ mres' = [mres EXCEPT ![t] = "none"]
    /\ UNCHANGED <<m_lock, m_calls, mctx>>

\* record_call, line 64: _lock is acquired
RecordAcquire(t) ==
    /\ mpc[t] = "record"
    /\ m_lock = 0
    /\ m_lock' = t
    /\ mpc' = [mpc EXCEPT ![t] = "appending"]
    /\ UNCHANGED <<m_calls, mctx, mres>>

\* record_call, line 65 and the end of the with block
RecordAppend(t) ==
    /\ mpc[t] = "appending"
    /\ m_calls' = m_calls + 1
    /\ m_lock' = 0
    /\ mpc' = [mpc EXCEPT ![t] = "idle"]
    /\ mres' = [mres EXCEPT ![t] = "None"]
    /\ UNCHANGED mctx

\* a thread calls session_summary itself
CallSessionSummary(t) ==
    /\ mpc[t] = "idle"
    /\ mpc' = [mpc EXCEPT ![t] = "summary"]
    /\ mctx' = [mctx EXCEPT ![t] = "caller"]
    /\ mres' = [mres EXCEPT ![t] = "none"]
    /\ UNCHANGED <<m_lock, m_calls>>

\* flush_to_disk, lines 115-117: the directory is made and the path chosen;
\* the thread reaches "with _lock"
CallFlushToDisk(t) ==
    /\ mpc[t] = "idle"
    /\ mpc' = [mpc EXCEPT ![t] = "flush"]
    /\ mres' = [mres EXCEPT ![t] = "none"]
    /\ UNCHANGED <<m_lock, m_calls, mctx>>

\* flush_to_disk, lines 118-120: _lock is acquired and, inside the with
\* block, self.session_summary() is called
FlushAcquire(t) ==
    /\ mpc[t] = "flush"
    /\ m_lock = 0
    /\ m_lock' = t
    /\ mpc' = [mpc EXCEPT ![t] = "summary"]
    /\ mctx' = [mctx EXCEPT ![t] = "flush_to_disk"]
    /\ UNCHANGED <<m_calls, mres>>

\* session_summary, line 68: _lock is acquired
SummaryAcquire(t) ==
    /\ mpc[t] = "summary"
    /\ m_lock = 0
    /\ m_lock' = t
    /\ mpc' = [mpc EXCEPT ![t] = "summing"]
    /\ UNCHANGED <<m_calls, mctx, mres>>

\* session_summary, lines 69-88: the totals are taken, the with block ends
\* and the dict is returned; in flush_to_disk the payload is then completed,
\* written to the file and the path returned (lines 121-125)
SummaryReturn(t) ==
    /\ mpc[t] = "summing"
    /\ m_lock' = 0
    /\ mpc' = [mpc EXCEPT ![t] = "idle"]
    /\ mres' = [mres EXCEPT ![t] = IF mctx[t] = "flush_to_disk" THEN "file_path" ELSE "summary"]
    /\ mctx' = [mctx EXCEPT ![t] = "none"]
    /\ UNCHANGED m_calls

MetricsInit ==
    /\ m_lock = 0
    /\ m_calls = 0
    /\ mpc = [t \in Callers |-> "idle"]
    /\ mctx = [t \in Callers |-> "none"]
    /\ mres = [t \in Callers |-> "none"]

MetricsNext ==
    \/ \E t \in Callers : CallRecordCall(t)
    \/ \E t \in Callers : RecordAcquire(t)
    \/ \E t \in Callers : RecordAppend(t)
    \/ \E t \in Callers : CallSessionSummary(t)
    \/ \E t \in Callers : CallFlushToDisk(t)
    \/ \E t \in Callers : FlushAcquire(t)
    \/ \E t \in Callers : SummaryAcquire(t)
    \/ \E t \in Callers : SummaryReturn(t)

----------------------------------------------------------------------------
(* MemoryManager: drafts in PostgreSQL, with the JSON files as fallback.   *)
(* Every MemoryManager of the program is built without a session           *)
(* (db_session is None), so each call opens and closes a session of its    *)
(* own; what a failed call had pending is gone with its session.           *)

\* the calls are made for one user; MaxSaves bounds the save_draft and
\* save_profile calls of a run
Users    == {"u1"}
MaxSaves == 3

\* draft_data as callers pass it: with content, with empty content, under the
\* older key "draft"
Payloads  == { [content |-> "hello"], [content |-> ""], [draft |-> "hi there"] }
NoPayload == [none |-> TRUE]

\* where the relational path of a call raises: nowhere; before it has changed
\* anything (the import of the models, no session, its first query or
\* delete); at flush; at commit; at close
Faults == {"none", "entry", "flush", "commit", "close"}

\* limit: None (0) or a number
Limits == {0, 1}

\* "draft_data.get('content') or draft_data.get('draft', '')"
ContentOf(p) == LET c == Get(p, "content", "") IN IF c # "" THEN c ELSE Get(p, "draft", "")

\* "if 'created_at' not in draft_data: draft_data['created_at'] = utcnow"
Stamped(p) == IF "created_at" \in DOMAIN p THEN p ELSE Merge(p, [created_at |-> "utcnow"])

Row(u, c) == [user_id |-> u, content |-> c]

RECURSIVE RowsOf(_, _)
\* query(Draft).filter_by(user_id=u).order_by(desc(created_at)), as dicts
RowsOf(u, rows) ==
    IF Len(rows) = 0 THEN << >>
    ELSE LET later == RowsOf(u, Tail(rows))
         IN  IF Head(rows).user_id = u THEN Append(later, [content |-> Head(rows).content])
             ELSE later

CountRows(u, rows) == Len(RowsOf(u, rows))

\* "if limit: query = query.limit(limit)" and "if limit: drafts = drafts[:limit]"
ApplyLimit(sq, limit) == IF limit # 0 THEN Prefix(sq, limit) ELSE sq

Reverse(sq) == [i \in 1..Len(sq) |-> sq[Len(sq) + 1 - i]]

RECURSIVE LegacyRows(_, _)
\* the Draft objects the migration adds: one per legacy draft with content
LegacyRows(u, legacy) ==
    IF Len(legacy) = 0 THEN << >>
    ELSE LET c == ContentOf(Head(legacy))
         IN  IF c = "" THEN LegacyRows(u, Tail(legacy))
             ELSE <<Row(u, c)>> \o LegacyRows(u, Tail(legacy))

\* _check_db_available answering "not available" while get_db_manager()
\* raises RuntimeError
_check_db_available_OnlyWhenReady(url, mgr) == url /\ mgr = "ready"

\* _check_db_available with db_session None
_check_db_available(url, mgr) ==
    IF ~url THEN FALSE
    ELSE IF mgr = "uninit" THEN TRUE   \* RuntimeError: "will retry on first save"
    ELSE TRUE                          \* db_manager and db_manager.engine

\* "from src.db.models import ...", _get_db() or the first query fails
NoSession(fault) == db_manager = "uninit" \/ fault = "entry"

\* _save_draft_db without lines 131-142: the draft is added for a user who
\* may have no profile
_save_draft_db_NoPlaceholder(u, p, fault) ==
    LET rolled_back == [raised |-> TRUE, profiles |-> db_profiles, drafts |-> db_drafts]
    IN  IF NoSession(fault) THEN rolled_back
        ELSE IF fault = "commit" THEN rolled_back
        ELSE [raised   |-> fault = "close",
              profiles |-> db_profiles,
              drafts   |-> Append(db_drafts, Row(u, ContentOf(p)))]

\* _save_draft_db without the rollback of line 157: the flushed placeholder
\* stays when the commit fails
_save_draft_db_NoRollback(u, p, fault) ==
    LET rolled_back == [raised |-> TRUE, profiles |-> db_profiles, drafts |-> db_drafts]
    IN  IF NoSession(fault) THEN rolled_back
        ELSE IF fault = "flush" /\ u \notin db_profiles THEN rolled_back
        ELSE IF fault = "commit"
        THEN [raised |-> TRUE, profiles |-> db_profiles \cup {u}, drafts |-> db_drafts]
        ELSE [raised   |-> fault = "close",
              profiles |-> db_profiles \cup {u},
              drafts   |-> Append(db_drafts, Row(u, ContentOf(p)))]

\* _save_draft_db: whether it raised, and the tables afterwards.  A rollback
\* leaves the tables as they were; the placeholder profile is flushed only
\* when the user has no profile yet.
_save_draft_db(u, p, fault) ==
    LET rolled_back == [raised |-> TRUE, profiles |-> db_profiles, drafts |-> db_drafts]
    IN  IF NoSession(fault) THEN rolled_back
        ELSE IF fault = "flush" /\ u \notin db_profiles THEN rolled_back
        ELSE IF fault = "commit" THEN rolled_back
        ELSE [raised   |-> fault = "close",
              profiles |-> db_profiles \cup {u},
              drafts   |-> Append(db_drafts, Row(u, ContentOf(p)))]

\* _save_draft_json
_save_draft_json(u, p, files) ==
    Merge(files, u :> Append(Get(files, u, << >>), Stamped(p)))

\* save_draft without its except branch: the exception of the relational
\* path reaches the caller and nothing is written to the file
save_draft_NoFallback(u, p, fault) ==
    LET use == IF ~use_db THEN _check_db_available(database_url, db_manager) ELSE use_db
        d   == _save_draft_db(u, p, fault)
    IN  IF use
        THEN [raised |-> d.raised, via |-> IF d.raised THEN "none" ELSE "db", use_db |-> use,
              profiles |-> d.profiles, drafts |-> d.drafts, files |-> draft_files]
        ELSE [raised |-> FALSE, via |-> "file", use_db |-> use,
              profiles |-> db_profiles, drafts |-> db_drafts,
              files |-> _save_draft_json(u, p, draft_files)]

\* save_draft
save_draft(u, p, fault) ==
    LET use == IF ~use_db THEN _check_db_available(database_url, db_manager) ELSE use_db
        d   == _save_draft_db(u, p, fault)
    IN  IF use /\ ~d.raised
        THEN [raised |-> FALSE, via |-> "db", use_db |-> use,
              profiles |-> d.profiles, drafts |-> d.drafts, files |-> draft_files]
        ELSE [raised |-> FALSE, via |-> "file", use_db |-> use,
              profiles |-> IF use THEN d.profiles ELSE db_profiles,
              drafts   |-> IF use THEN d.drafts ELSE db_drafts,
              files    |-> _save_draft_json(u, p, draft_files)]

\* _load_drafts_db with its migration of the legacy file.  The commit of the
\* migrated rows is refused when the user has no row in user_profiles
\* (drafts.user_id is a foreign key); "except Exception as mig_err" swallows
\* that and the empty result is returned.
_load_drafts_db(u, limit, fault) ==
    LET found  == ApplyLimit(RowsOf(u, db_drafts), limit)
        rows   == LegacyRows(u, Get(draft_files, u, << >>))
        after  == db_drafts \o rows
        asis(res) == [raised |-> fault = "close", result |-> res, drafts |-> db_drafts,
                      files |-> draft_files, inserted |-> 0]
    IN  IF NoSession(fault)
        THEN [raised |-> TRUE, result |-> << >>, drafts |-> db_drafts,
              files |-> draft_files, inserted |-> 0]
        ELSE IF Len(found) > 0 \/ u \notin DOMAIN draft_files THEN asis(found)
        ELSE IF Len(rows) = 0 THEN asis(<< >>)
        ELSE IF fault = "commit" \/ u \notin db_profiles THEN asis(<< >>)
        ELSE [raised   |-> fault = "close",
              result   |-> ApplyLimit(RowsOf(u, after), limit),
              drafts   |-> after,
              files    |-> Restrict(draft_files, DOMAIN draft_files \ {u}),
              inserted |-> Len(rows)]

\* _load_drafts_json
_load_drafts_json(u, limit, files) ==
    IF u \notin DOMAIN files THEN << >> ELSE ApplyLimit(Reverse(files[u]), limit)

\* load_drafts
load_drafts(u, limit, fault) ==
    LET d == _load_drafts_db(u, limit, fault)
    IN  IF use_db /\ ~d.raised
        THEN [raised |-> FALSE, via |-> "db", result |-> d.result,
              drafts |-> d.drafts, files |-> d.files, inserted |-> d.inserted]
        ELSE LET files == IF use_db THEN d.files ELSE draft_files
             IN  [raised |-> FALSE, via |-> "file",
                  result |-> _load_drafts_json(u, limit, files),
                  drafts |-> IF use_db THEN d.drafts ELSE db_drafts,
                  files |-> files,
                  inserted |-> IF use_db THEN d.inserted ELSE 0]

\* _clear_drafts_db
_clear_drafts_db(u, fault) ==
    IF NoSession(fault) \/ fault = "commit"
    THEN [raised |-> TRUE, drafts |-> db_drafts]
    ELSE [raised |-> fault = "close",
          drafts |-> SelectSeq(db_drafts, LAMBDA r : r.user_id # u)]

\* clear_drafts without its except branch
clear_drafts_NoFallback(u, fault) ==
    LET d == _clear_drafts_db(u, fault)
    IN  IF use_db
        THEN [raised |-> d.raised, via |-> IF d.raised THEN "none" ELSE "db",
              drafts |-> d.drafts, files |-> draft_files]
        ELSE [raised |-> FALSE, via |-> "file", drafts |-> db_drafts,
              files |-> Restrict(draft_files, DOMAIN draft_files \ {u})]

\* clear_drafts, with _clear_drafts_json
clear_drafts(u, fault) ==
    LET d == _clear_drafts_db(u, fault)
    IN  IF use_db /\ ~d.raised
        THEN [raised |-> FALSE, via |-> "db", drafts |-> d.drafts, files |-> draft_files]
        ELSE [raised |-> FALSE, via |-> "file",
              drafts |-> IF use_db THEN d.drafts ELSE db_drafts,
              files |-> Restrict(draft_files, DOMAIN draft_files \ {u})]

\* profile_data as callers pass it: preferences with one key each, and a
\* plain signature without preferences
ProfileDatas == { [preferences |-> [tone |-> "formal"]],
                  [preferences |-> [length |-> "short"]],
                  [signature |-> "Cheers"] }
NoProfile == [none |-> TRUE]

\* "preferences = profile_data.get('preferences') or {}", with the signature
\* string stored under preferences.signature
PrefsOf(p) ==
    LET given == Get(p, "preferences", << >>)
    IN  IF "signature" \in DOMAIN p THEN Merge(given, [signature |-> p.signature]) ELSE given

\* _save_profile_db: an existing row has its preferences merged (only "if
\* preferences"), a new row takes them as they are
_save_profile_db(u, p, fault) ==
    LET prefs == PrefsOf(p)
    IN  IF NoSession(fault) \/ fault = "commit"
        THEN [raised |-> TRUE, profiles |-> db_profiles, prefs |-> db_prefs]
        ELSE [raised   |-> fault = "close",
              profiles |-> db_profiles \cup {u},
              prefs    |-> [db_prefs EXCEPT ![u] =
                               IF u \in db_profiles
                               THEN (IF DOMAIN prefs # {} THEN Merge(@, prefs) ELSE @)
                               ELSE prefs]]

\* save_profile, with _save_profile_json: the file is rewritten with profile_data
save_profile(u, p, fault) ==
    LET d == _save_profile_db(u, p, fault)
    IN  IF use_db /\ ~d.raised
        THEN [raised |-> FALSE, via |-> "db", profiles |-> d.profiles, prefs |-> d.prefs,
              files |-> profile_files]
        ELSE [raised |-> FALSE, via |-> "file",
              profiles |-> IF use_db THEN d.profiles ELSE db_profiles,
              prefs    |-> IF use_db THEN d.prefs ELSE db_prefs,
              files    |-> Merge(profile_files, u :> p)]

\* _load_profile_db
_load_profile_db(u, fault) ==
    IF NoSession(fault) THEN [raised |-> TRUE, result |-> NoProfile]
    ELSE [raised |-> fault = "close",
          result |-> IF u \notin db_profiles THEN NoProfile
                     ELSE [preferences |-> db_prefs[u],
                           signature |-> Get(db_prefs[u], "signature", "Best regards")]]

\* load_profile, with _load_profile_json
load_profile(u, fault) ==
    LET d == _load_profile_db(u, fault)
    IN  IF use_db /\ ~d.raised
        THEN [raised |-> FALSE, via |-> "db", result |-> d.result]
        ELSE [raised |-> FALSE, via |-> "file", result |-> Get(profile_files, u, NoProfile)]

NoOp == [op |-> "none", user |-> "", payload |-> NoPayload, via |-> "none", raised |-> FALSE,
         result |-> << >>, inserted |-> 0, pre_file |-> -1, pre_rows |-> 0, fault |-> "none",
         healthy |-> FALSE, lazy |-> FALSE, pre_profile |-> FALSE]

\* what a call found: the length of the user's legacy file (-1 without a
\* file), the number of the user's rows, whether the relational backend
\* was in use and served every call made to it, and whether this is the first
\* call on a MemoryManager built before init_db() and made after it, and
\* whether the user had a profile row
Found(u, fault) ==
    [pre_file |-> IF u \in DOMAIN draft_files THEN Len(draft_files[u]) ELSE -1,
     pre_rows |-> CountRows(u, db_drafts),
     fault    |-> fault,
     healthy  |-> use_db /\ db_manager = "ready" /\ fault = "none",
     lazy     |-> lastOp.op = "MemoryManager" /\ lastOp.at = "uninit" /\ db_manager = "ready",
     pre_profile |-> u \in db_profiles]

\* settings are loaded: DATABASE_URL is configured or it is not
LoadSettings(url) ==
    /\ mphase = "start"
    /\ mphase' = "configured"
    /\ database_url' = url
    /\ UNCHANGED <<db_manager, use_db, db_profiles, db_drafts, draft_files, pfvars, saves, lastOp>>

\* init_db(): the global database manager is created
InitDb ==
    /\ mphase # "start"
    /\ database_url
    /\ db_manager = "uninit"
    /\ db_manager' = "ready"
    /\ UNCHANGED <<mphase, database_url, use_db, db_profiles, db_drafts, draft_files, pfvars,
                   saves, lastOp>>

\* MemoryManager()
NewMemoryManager ==
    /\ mphase = "configured"
    /\ mphase' = "built"
    /\ use_db' = _check_db_available(database_url, db_manager)
    /\ lastOp' = Merge(NoOp, [op |-> "MemoryManager", at |-> db_manager])
    /\ UNCHANGED <<database_url, db_manager, db_profiles, db_drafts, draft_files, pfvars,
                   saves>>

SaveDraft(u, p, fault) ==
    /\ mphase = "built"
    /\ saves < MaxSaves
    /\ LET r == save_draft(u, p, fault)
       IN  /\ use_db' = r.use_db
           /\ db_profiles' = r.profiles
           /\ db_drafts' = r.drafts
           /\ draft_files' = r.files
           /\ lastOp' = Merge(Found(u, fault),
                              [op |-> "save_draft", user |-> u, payload |-> p, via |-> r.via,
                               raised |-> r.raised, result |-> << >>, inserted |-> 0])
    /\ saves' = saves + 1
    /\ UNCHANGED <<mphase, database_url, db_manager, pfvars>>

LoadDrafts(u, limit, fault) ==
    /\ mphase = "built"
    /\ LET r == load_drafts(u, limit, fault)
       IN  /\ db_drafts' = r.drafts
           /\ draft_files' = r.files
           /\ lastOp' = Merge(Found(u, fault),
                              [op |-> "load_drafts", user |-> u, payload |-> NoPayload,
                               via |-> r.via, raised |-> r.raised, result |-> r.result,
                               inserted |-> r.inserted])
    /\ UNCHANGED <<mphase, database_url, db_manager, use_db, db_profiles, pfvars, saves>>

ClearDrafts(u, fault) ==
    /\ mphase = "built"
    /\ LET r == clear_drafts(u, fault)
       IN  /\ db_drafts' = r.drafts
           /\ draft_files' = r.files
           /\ lastOp' = Merge(Found(u, fault),
                              [op |-> "clear_drafts", user |-> u, payload |-> NoPayload,
                               via |-> r.via, raised |-> r.raised, result |-> << >>,
                               inserted |-> 0])
    /\ UNCHANGED <<mphase, database_url, db_manager, use_db, db_profiles, pfvars, saves>>

SaveProfile(u, p, fault) ==
    /\ mphase = "built"
    /\ saves < MaxSaves
    /\ LET r == save_profile(u, p, fault)
       IN  /\ db_profiles' = r.profiles
           /\ db_prefs' = r.prefs
           /\ profile_files' = r.files
           /\ lastOp' = Merge(Found(u, fault),
                              [op |-> "save_profile", user |-> u, payload |-> p, via |-> r.via,
                               raised |-> r.raised, result |-> << >>, inserted |-> 0,
                               before |-> written[u]])
    /\ written' = [written EXCEPT ![u] = PrefsOf(p)]
    /\ saves' = saves + 1
    /\ UNCHANGED <<mphase, database_url, db_manager, use_db, db_drafts, draft_files>>

LoadProfile(u, fault) ==
    /\ mphase = "built"
    /\ LET r == load_profile(u, fault)
       IN  lastOp' = Merge(Found(u, fault),
                           [op |-> "load_profile", user |-> u, payload |-> NoPayload,
                            via |-> r.via, raised |-> r.raised, result |-> r.result,
                            inserted |-> 0])
    /\ UNCHANGED <<mphase, database_url, db_manager, use_db, db_profiles, db_drafts,
                   draft_files, pfvars, saves>>

MemoryInit ==
    /\ mphase = "start"
    /\ database_url = FALSE
    /\ db_manager = "uninit"
    /\ use_db = FALSE
    /\ db_profiles = {}
    /\ db_drafts = << >>
    /\ draft_files = << >>
    /\ db_prefs = [u \in Users |-> << >>]
    /\ profile_files = << >>
    /\ written = [u \in Users |-> << >>]
    /\ saves = 0
    /\ lastOp = NoOp

MemoryNext ==
    \/ \E url \in BOOLEAN : LoadSettings(url)
    \/ InitDb
    \/ NewMemoryManager
    \/ \E u \in Users, p \in Payloads, fault \in Faults : SaveDraft(u, p, fault)
    \/ \E u \in Users, limit \in Limits, fault \in Faults \ {"flush"} : LoadDrafts(u, limit, fault)
    \/ \E u \in Users, fault \in Faults \ {"flush"} : ClearDrafts(u, fault)
    \/ \E u \in Users, p \in ProfileDatas, fault \in Faults \ {"flush"} : SaveProfile(u, p, fault)
    \/ \E u \in Users, fault \in {"none", "entry", "close"} : LoadProfile(u, fault)

----------------------------------------------------------------------------
(* _save_draft_json called by several threads for one user (the Streamlit *)
(* app runs the script of each session in a thread of its own, and the API *)
(* may run in several worker processes).  The method takes no lock, on the *)
(* object or on the file.  The user's file is absent, whole (a JSON list)  *)
(* or truncated (opened with "w" and not written yet: not valid JSON).     *)

VARIABLES
    f_state,     \* "absent", "whole" or "truncated"
    f_drafts,    \* the list in the file when it is whole
    fpc,         \* per thread: where it is in _save_draft_json
    flocal,      \* per thread: its local list "drafts"
    fdata,       \* per thread: its draft_data
    freturned    \* the drafts of the calls that have returned

fvars == <<f_state, f_drafts, fpc, flocal, fdata, freturned>>

\* a thread enters _save_draft_json with its draft_data
CallSaveDraftJson(t, p) ==
    /\ fpc[t] = "idle"
    /\ Len(freturned) + Cardinality({c \in Callers : fpc[c] # "idle"}) < MaxSaves
    /\ fpc' = [fpc EXCEPT ![t] = "read"]
    /\ fdata' = [fdata EXCEPT ![t] = p]
    /\ UNCHANGED <<f_state, f_drafts, flocal, freturned>>

\* lines 167-173: the list is read; a missing file and a file that does not
\* parse both give []
JsonRead(t) ==
    /\ fpc[t] = "read"
    /\ flocal' = [flocal EXCEPT ![t] = IF f_state = "whole" THEN f_drafts ELSE << >>]
    /\ fpc' = [fpc EXCEPT ![t] = "open"]
    /\ UNCHANGED <<f_state, f_drafts, fdata, freturned>>

\* lines 176-181: the draft is stamped and appended to the local list, and
\* open(file, "w") truncates the file
JsonOpen(t) ==
    /\ fpc[t] = "open"
    /\ flocal' = [flocal EXCEPT ![t] = Append(@, Stamped(fdata[t]))]
    /\ f_state' = "truncated"
    /\ f_drafts' = << >>
    /\ fpc' = [fpc EXCEPT ![t] = "dump"]
    /\ UNCHANGED <<fdata, freturned>>

\* line 182: json.dump writes the local list, the file is closed and the
\* call returns.  (Two threads between open and dump write through separate
\* handles from offset 0; the file is taken to hold the list dumped last.)
JsonDump(t) ==
    /\ fpc[t] = "dump"
    /\ f_drafts' = flocal[t]
    /\ f_state' = "whole"
    /\ fpc' = [fpc EXCEPT ![t] = "idle"]
    /\ freturned' = Append(freturned, Stamped(fdata[t]))
    /\ UNCHANGED <<flocal, fdata>>

FileInit ==
    /\ f_state = "absent"
    /\ f_drafts = << >>
    /\ fpc = [t \in Callers |-> "idle"]
    /\ flocal = [t \in Callers |-> << >>]
    /\ fdata = [t \in Callers |-> NoPayload]
    /\ freturned = << >>

FileNext ==
    \/ \E t \in Callers, p \in Payloads : CallSaveDraftJson(t, p)
    \/ \E t \in Callers : JsonRead(t)
    \/ \E t \in Callers : JsonOpen(t)
    \/ \E t \in Callers : JsonDump(t)

----------------------------------------------------------------------------
(* Specifications: the components do not share state, each is checked on   *)
(* its own with the others at rest.                                        *)

vars == <<pvars, lvars, rvars, ivars, kvars, mvars, svars, fvars>>

Init ==
    /\ PipelineInit /\ LimiterInit /\ RetryInit /\ InvokeInit /\ LockInit /\ MetricsInit
    /\ MemoryInit /\ FileInit

PipelineStep == PipelineNext /\ UNCHANGED <<lvars, rvars, ivars, kvars, mvars, svars, fvars>>
LimiterStep  == LimiterNext /\ UNCHANGED <<pvars, rvars, ivars, kvars, mvars, svars, fvars>>
RetryStep    == RetryNext /\ UNCHANGED <<pvars, lvars, ivars, kvars, mvars, svars, fvars>>
MemoryStep   == MemoryNext /\ UNCHANGED <<pvars, lvars, rvars, ivars, kvars, mvars, fvars>>
InvokeStep   == InvokeNext /\ UNCHANGED <<pvars, rvars, kvars, mvars, svars, fvars>>
LockStep     == LockNext /\ UNCHANGED <<pvars, rvars, ivars, mvars, svars, fvars>>
MetricsStep  == MetricsNext /\ UNCHANGED <<pvars, lvars, rvars, ivars, kvars, svars, fvars>>
FileStep     == FileNext /\ UNCHANGED <<pvars, lvars, rvars, ivars, kvars, mvars, svars>>

SpecPipeline == Init /\ [][PipelineStep]_vars
SpecLimiter  == Init /\ [][LimiterStep]_vars
SpecRetry    == Init /\ [][RetryStep]_vars
SpecMemory   == Init /\ [][MemoryStep]_vars
SpecInvoke   == Init /\ [][InvokeStep]_vars
SpecLock     == Init /\ [][LockStep]_vars
SpecMetrics  == Init /\ [][MetricsStep]_vars
SpecFile     == Init /\ [][FileStep]_vars

----------------------------------------------------------------------------
(* Properties of the rate limiter *)

\* admissions whose timestamp lies in the closed window [e - Window, e]
InWindow(e) == {i \in 1..Len(admitted) : admitted[i][1] >= e - Window /\ admitted[i][1] <= e}

RECURSIVE SumOver(_)
SumOver(S) == IF S = {} THEN 0
              ELSE LET i == CHOOSE j \in S : TRUE IN admitted[i][2] + SumOver(S \ {i})

\* C6: in any trailing 60-second window (it suffices to look at the windows
\* that end at an admission) the number of admissions is at most the
\* requests-per-minute limit and the estimated tokens of the admitted calls sum
\* to at most the tokens-per-minute limit.
C6_WindowLimits ==
    \A k \in 1..Len(admitted) :
        /\ Cardinality(InWindow(admitted[k][1])) <= Rpm
        /\ SumOver(InWindow(admitted[k][1])) <= Tpm

\* more admissions than the request limit in total, the earliest exactly one
\* window before the latest, and a caller held back at that moment
C6_Witness ==
    /\ Len(admitted) > Rpm
    /\ \E i, k \in 1..Len(admitted) : admitted[k][1] - admitted[i][1] = Window
    /\ \E c \in Callers : tpc[c] = "waiting" /\ twake[c] > now

(* Properties of the retry loop *)

FailedOutcomes(n) == \A i \in 1..n : ~routcomes[i].ok

\* C7: run_with_retries calls func exactly min(n, max_retries + 1) times,
\* n being the first attempt that succeeds: a run that returns has made n
\* calls, n <= max_retries + 1, all but the last failed and the value returned
\* is that of call n; a run that raises has made exactly max_retries + 1
\* calls, all failed; no call is made after either, and one sleep separates
\* two consecutive calls.
C7_AttemptCount ==
    /\ Len(routcomes) = attempt
    /\ attempt <= rcfg.mr + 1
    /\ rphase = "returned" =>
           /\ routcomes[attempt].ok
           /\ FailedOutcomes(attempt - 1)
           /\ rresult = attempt
    /\ rphase = "raised" =>
           /\ attempt = rcfg.mr + 1
           /\ FailedOutcomes(attempt)
           /\ rerror.attempts = attempt
    /\ (rphase \in {"calling", "sleeping"}) => FailedOutcomes(attempt)
    /\ Len(rsleeps) = (IF rphase \in {"idle", "calling"} THEN attempt ELSE attempt - 1)

\* a call that succeeds on attempt 3 under max_retries >= 2
C7_Witness ==
    /\ rphase = "returned"
    /\ rcfg.mr >= 2
    /\ attempt = 3
    /\ rresult = 3

\* an always-failing call has used up the budget
C7_WitnessExhausted ==
    /\ rphase = "raised"
    /\ rcfg.mr = 2
    /\ Len(routcomes) = 3

\* C8: after failed attempt a with attempts remaining the wait is
\* min(h, max_backoff) when the error text carries a server-suggested delay
\* h > 0, otherwise min(initial_backoff * factor^(a-1), max_backoff); the text
\* "Please retry in 2.5s" gives min(2.5 s, max_backoff); and the wait never
\* exceeds max_backoff.
C8_WaitBeforeRetry ==
    rphase = "sleeping" =>
        LET text == routcomes[attempt].text
            h    == _parse_retry_delay(text)
        IN  /\ rdelay <= rcfg.mb
            /\ (h > 0) => rdelay = Min(h, rcfg.mb)
            /\ ~(h > 0) => rdelay = Min(rcfg.ib * Pow(rcfg.bf, attempt - 1), rcfg.mb)
            /\ text = TextHint => rdelay = Min(250, rcfg.mb)
            /\ text = TextTwoHints => rdelay = Min(300, rcfg.mb)
            /\ text \in {TextPlain, TextZeroHint, TextNewLine, TextFarAway, TextNone} =>
                   rdelay = Min(rcfg.ib * Pow(rcfg.bf, attempt - 1), rcfg.mb)

\* a suggested delay above max_backoff is clamped, on a second failed attempt
C8_Witness ==
    /\ rphase = "sleeping"
    /\ attempt = 2
    /\ routcomes[2].text = TextAfter
    /\ rcfg.mb = 6000
    /\ rdelay = 6000

(* Properties of the memory manager *)

\* C9: save_draft does not raise, whatever the relational path does; and when
\* the call ended on the file backend (every relational call raised, or the
\* relational backend is not in use), load_drafts for the same user, with the
\* relational backend still raising, is served from the file and returns the
\* saved draft, as the most recent one, under every limit.
C9_SaveDraftFallsBack ==
    lastOp.op = "save_draft" =>
        /\ ~lastOp.raised
        /\ lastOp.via \in {"db", "file"}
        /\ lastOp.via = "file" =>
               \A limit \in Limits :
                   LET r == load_drafts(lastOp.user, limit, "entry")
                   IN  /\ ~r.raised
                       /\ r.via = "file"
                       /\ Len(r.result) > 0
                       /\ r.result[1] = Stamped(lastOp.payload)

\* a save that found the relational backend in use and initialised, had its
\* first relational call raise, and was appended to a file that held a draft
C9_Witness ==
    /\ lastOp.op = "save_draft"
    /\ lastOp.fault = "entry"
    /\ use_db /\ db_manager = "ready"
    /\ lastOp.via = "file"
    /\ lastOp.pre_file = 1
    /\ Len(draft_files[lastOp.user]) = 2

\* C10: a load_drafts(U) call that finds a legacy file with N drafts and no
\* row for U, every relational call succeeding, leaves exactly N rows for U
\* and no legacy file; a second load_drafts(U) inserts no row.
C10_MigrationIdempotent ==
    (lastOp.op = "load_drafts" /\ lastOp.healthy /\ lastOp.pre_file > 0 /\ lastOp.pre_rows = 0) =>
        /\ CountRows(lastOp.user, db_drafts) = lastOp.pre_file
        /\ lastOp.user \notin DOMAIN draft_files
        /\ \A limit \in Limits : load_drafts(lastOp.user, limit, "none").inserted = 0

\* whether the relational path of the last call raised to the public method:
\* before it changed anything, at close, or at the commit of a clear or of a
\* profile save (the commit of a migration is swallowed inside the path)
PathRaised ==
    \/ db_manager = "uninit"
    \/ lastOp.fault \in {"entry", "close"}
    \/ lastOp.fault = "commit" /\ lastOp.op \in {"clear_drafts", "save_profile"}

C12_QuotaNotRetried ==
    LET str(text) == [i \in 1..Len(text) |->
                         IF text[i].num = 42900 THEN "429" ELSE FoldCase(text[i].w)]
    IN  \A i \in 1..Len(routcomes) :
            (~routcomes[i].ok /\ _is_quota_error(str(routcomes[i].text))) =>
                /\ i = Len(routcomes)
                /\ rphase = "raised"
                /\ Len(rsleeps) = i - 1

(* Properties of invoke_chain *)

Finished(c) == inv[c].phase \in {"returned", "raised"}

\* C13: an invoke that acquired a slot of the limiter releases it exactly
\* once, whether the call returned, failed on every attempt, or the metrics
\* record failed: no release before the invoke ends, as many releases as
\* acquisitions once it ended, and in_flight counts exactly the threads that
\* hold a slot, so it is 0 when every started invoke has finished.
C13_ReleaseExactlyOnce ==
    /\ \A c \in Callers :
           /\ inv[c].rel <= inv[c].acq
           /\ inv[c].acq <= 1
           /\ Finished(c) => inv[c].rel = inv[c].acq
           /\ ~Finished(c) => inv[c].rel = 0
    /\ in_flight = Cardinality({c \in Callers : inv[c].acq > inv[c].rel})
    /\ (\A c \in Callers : inv[c].phase \in {"idle", "rejected", "returned", "raised"}) =>
           in_flight = 0

\* one thread's call failed on every attempt and its metrics record failed
\* too, another thread's call returned; both had a slot and gave it back
C13_Witness ==
    /\ rate_limiter = "on"
    /\ in_flight = 0
    /\ \E c, d \in Callers :
           /\ inv[c].phase = "raised" /\ ~inv[c].metrics_ok /\ inv[c].acq = 1 /\ inv[c].rel = 1
           /\ inv[d].phase = "returned" /\ inv[d].acq = 1 /\ inv[d].rel = 1

\* C14: an invoke of a chain raises to its caller exactly when the call
\* failed on every attempt of the retry budget (max_retries + 1 calls, the
\* last one failed, and a success would have ended the loop earlier); a
\* failed metrics record neither hides that error nor turns a call that
\* returned into an error.
C14_RaisesIffCallFailed ==
    \A c \in Callers :
        /\ Finished(c) =>
               /\ inv[c].phase = "raised" <=> (~inv[c].ok /\ inv[c].calls = max_retries + 1)
               /\ inv[c].phase = "returned" <=> inv[c].ok
        /\ inv[c].phase = "cleanup" /\ ~inv[c].ok => inv[c].calls = max_retries + 1
        /\ inv[c].phase = "sleeping" => ~inv[c].ok /\ inv[c].calls <= max_retries

\* with a retry budget above zero: one invoke raised after the whole budget
\* although its metrics record failed, another returned on a retry although
\* its metrics record failed
C14_Witness ==
    /\ max_retries >= 1
    /\ \E c, d \in Callers :
           /\ inv[c].phase = "raised" /\ ~inv[c].metrics_ok /\ inv[c].calls = max_retries + 1
           /\ inv[d].phase = "returned" /\ ~inv[d].metrics_ok /\ inv[d].calls >= 2

\* C19 as stated: a CallRecord is appended after every attempt, so an invoke
\* that has ended after n calls of the provider, with the metrics code
\* working, has appended n records.
C19_RecordPerAttempt ==
    \A c \in Callers : (Finished(c) /\ inv[c].metrics_ok) => inv[c].recs = inv[c].calls

\* C19, amended: a CallRecord is appended once per invoke, in the cleanup
\* that follows the last attempt: none while the attempts and the sleeps
\* between them go on, and after the invoke has ended exactly one (whatever
\* the number of attempts) unless the metrics code raised, then none.
C19_RecordPerInvoke ==
    \A c \in Callers :
        /\ ~Finished(c) => inv[c].recs = 0
        /\ Finished(c) => inv[c].recs = (IF inv[c].metrics_ok THEN 1 ELSE 0)

\* an invoke that ended after more than one attempt and has one record
C19_Witness ==
    \E c \in Callers : Finished(c) /\ inv[c].calls >= 2 /\ inv[c].recs = 1

\* C20: the limiter is consulted before each attempt, so every call sent to
\* the provider has an admission of its own in the limiter's window: with a
\* limiter, a thread has never made more calls than it was admitted.
C20_AcquirePerAttempt ==
    rate_limiter = "on" => \A c \in Callers : inv[c].calls <= inv[c].acq

(* Further properties of the rate limiter *)

\* C15: acquire only delays.  A caller inside acquire that runs its check
\* while no slot is taken and both windows are empty after the purge has
\* nothing left to wait for, so the check admits it: a check that sends it to
\* sleep in that situation will do so at every later check as well, and the
\* call never returns.
C15_IdleLimiterAdmits ==
    [][\A c \in Callers :
           (/\ tpc[c] = "waiting"
            /\ in_flight = 0
            /\ Purge(req_timestamps, now, FALSE) = << >>
            /\ Purge(token_timestamps, now, TRUE) = << >>
            /\ twake'[c] # twake[c]) => tpc'[c] = "holding"]_vars

(* Properties of the limiter's lock *)

\* C21: under every interleaving of acquire and release the in-flight
\* counter stays within 0..max_concurrency and counts exactly the threads
\* that hold a slot.  The check and the increment are one critical section:
\* at most one thread is inside the lock, and what a thread decided inside is
\* still what the limiter's state says when it writes.
C21_InFlightBounded ==
    /\ in_flight \in 0..MaxConcurrency
    /\ in_flight = Cardinality({c \in Callers : tpc[c] = "holding"})
    /\ Cardinality(inside) <= 1
    /\ \A c \in inside :
           decided[c].made =>
               decided[c].admit = Admission(req_timestamps, token_timestamps, in_flight,
                                            test[c], decided[c].t).admit

\* every slot is taken, a slot was given back before, and a thread inside
\* the lock has just been refused the last slot
C21_Witness ==
    /\ in_flight = MaxConcurrency
    /\ Len(admitted) > MaxConcurrency
    /\ \E c \in inside :
           decided[c].made /\ ~decided[c].admit /\ decided[c].wait = ConcurrencyWait

\* C22: the lock is held for the check only.  A thread inside the lock is
\* never asleep and never waits for anything (it is in release, or in
\* acquire with its sleep over), so the lock is free again after the steps of
\* the thread inside and release never waits for a sleeper; and a thread
\* that checks while a slot is free and both windows have room is admitted.
C22_LockOnlyForCheck ==
    \A c \in inside :
        /\ tpc[c] \in {"waiting", "holding"}
        /\ tpc[c] = "waiting" => now >= twake[c]
        /\ (/\ decided[c].made
            /\ in_flight < MaxConcurrency
            /\ Len(req_timestamps) < Rpm
            /\ SumTokens(token_timestamps) + test[c] <= Tpm) => decided[c].admit

\* a thread sleeps in acquire, refused while every slot was taken, and
\* another thread is inside the lock giving its slot back
C22_Witness ==
    \E c, d \in Callers :
        /\ tpc[c] = "waiting" /\ twake[c] > now /\ c \notin inside
        /\ in_flight = MaxConcurrency
        /\ tpc[d] = "holding" /\ d \in inside

(* Further properties of MemoryManager *)

\* C16: once clear_drafts(u) has returned, load_drafts(u) returns no draft,
\* whichever of the table and the file held u's drafts before.  Stated for
\* the most favourable case: the relational backend served the clear without
\* failure and serves the load without failure, with any limit.
C16_ClearedStaysEmpty ==
    (lastOp.op = "clear_drafts" /\ lastOp.healthy) =>
        \A limit \in Limits : load_drafts(lastOp.user, limit, "none").result = << >>

\* C17: save_profile merges the preferences map.  After a save_profile for
\* a user, every preference key that the previous save_profile for that user
\* passed and this one did not pass is still returned by load_profile, with
\* the value the previous call gave it.
C17_PreferencesMerged ==
    lastOp.op = "save_profile" =>
        LET kept   == (DOMAIN lastOp.before \ {"signature"}) \ DOMAIN PrefsOf(lastOp.payload)
            loaded == load_profile(lastOp.user, "none").result
        IN  \A k \in kept :
                /\ "preferences" \in DOMAIN loaded
                /\ k \in DOMAIN loaded.preferences
                /\ loaded.preferences[k] = lastOp.before[k]

(* Further properties of the workflow executor *)

\* C18: a quota error of the provider call reaches the executor from every
\* stage that calls the provider through LLMWrapper.invoke_chain.  Whenever
\* the next agent is one of these and its result depends on the provider (it
\* differs between a provider that answers and one that raises a quota
\* error), the agent run against the quota error raises a quota-classified
\* error and the executor's handler returns the stub state.
C18_QuotaReachesExecutor ==
    LET wrapped == {"input_parser", "intent_detector", "tone_stylist", "personalization",
                    "review", "refinement"}
    IN  (pphase = "running" /\ pidx <= NumStages /\ Order[pidx] \in wrapped) =>
            \A dec \in RouterDecisions :
                LET name == Order[pidx]
                    ok   == RunAgent(name, pstate, "ok", dec)
                    q    == RunAgent(name, pstate, "llm_quota", dec)
                IN  (~ok.raised /\ q # ok) =>
                        /\ q.raised
                        /\ _is_quota_error(q.err)
                        /\ OnStageError(pstate, name, q.err, ptrace, pdev).returns

----------------------------------------------------------------------------
(* Further properties of the relational tables.                            *)

----------------------------------------------------------------------------
(* Further properties of the workflow state.                               *)

\* C24: within a run of execute_workflow no top-level key of the state is
\* deleted: every key the state had before an iteration of the loop (or
\* before the final return) is a key of the state after it, on the normal
\* path and on the quota-fallback path alike.
C24_KeysNeverDeleted ==
    lastStep.stage # "none" => DOMAIN lastStep.pre \subseteq DOMAIN pstate

----------------------------------------------------------------------------
(* Further properties of the choice of backend.                            *)

----------------------------------------------------------------------------
(* Properties of the stub generator.                                       *)

\* C26: for every raw input, an empty or blank one included, the state that
\* execute_workflow returns from _generate_stub_state, asked for by the
\* caller (use_stub) or reached through the quota fallback, has the keys
\* parsed_data, recipient, intent, draft and final_draft and a non-empty
\* draft, which is also its final_draft.
C26_StubComplete ==
    (pphase = "returned" /\ (pidx = 0 \/ quotaAt # 0)) =>
        /\ {"parsed_data", "recipient", "intent", "draft", "final_draft"} \subseteq DOMAIN pstate
        /\ NonEmptyText(pstate["draft"])
        /\ pstate["final_draft"] = pstate["draft"]

\* the quota fallback of a run on a blank input
C26_Witness ==
    /\ pphase = "returned"
    /\ quotaAt # 0
    /\ pstate["user_input"] \in {InputEmpty, InputBlank}
    /\ StubKeyPoints(pstate["user_input"]) = << >>
    /\ NonEmptyText(pstate["draft"])

----------------------------------------------------------------------------
(* Properties of MetricsManager.                                           *)

\* C27: flush_to_disk terminates and returns the path.  While it holds, no
\* thread ever waits for _lock while holding _lock itself (such a thread
\* waits for a release that only it could make), and a thread that took the
\* lock in flush_to_disk is on its way to a return.
C27_FlushNeverBlocksItself ==
    \A t \in Callers : ~(mpc[t] = "summary" /\ m_lock = t)

\* no call of flush_to_disk has returned its path
FlushNeverReturned == \A t \in Callers : mres[t] # "file_path"

----------------------------------------------------------------------------
(* Properties of the draft file under concurrent saves.                    *)

\* C28: save_draft calls for one user that run concurrently against the
\* file backend are independent: once every call has returned, the user's
\* file is a JSON list that holds the draft of each of them.
C28_FileHoldsEveryDraft ==
    (\A t \in Callers : fpc[t] = "idle") =>
        /\ f_state = "whole" \/ freturned = << >>
        /\ Len(f_drafts) = Len(freturned)
        /\ \A i \in 1..Len(freturned) : \E j \in 1..Len(f_drafts) : f_drafts[j] = freturned[i]

----------------------------------------------------------------------------
(* Properties of drafts that were saved to the file.                       *)

\* C29: a draft whose save_draft fell back to the file is returned by a
\* later unlimited load_drafts once the relational backend is reachable,
\* also when the tables already hold other drafts of the user.  Whenever the
\* backend is in use and ready, an unlimited load_drafts served without a
\* fault returns every draft with content that is in the user's file; taken
\* for users who have a profile row, so that the migration is not refused.
C29_FileDraftsAreLoaded ==
    (mphase = "built" /\ use_db /\ db_manager = "ready") =>
        \A u \in Users :
            u \in db_profiles =>
                LET legacy == Get(draft_files, u, << >>)
                    loaded == load_drafts(u, 0, "none").result
                IN  \A i \in 1..Len(legacy) :
                        ContentOf(legacy[i]) # "" =>
                            \E j \in 1..Len(loaded) : loaded[j].content = ContentOf(legacy[i])

\* C30: when the relational path of save_draft fails after it has created
\* the placeholder profile (the insert of the draft or the commit raises),
\* the call leaves the tables as they were, without the placeholder and
\* without the draft, and the payload is stored in the user's file alone.
C30_FailedSaveLeavesNoRows ==
    (/\ lastOp.op = "save_draft"
     /\ lastOp.fault = "commit"
     /\ use_db /\ db_manager = "ready"
     /\ ~lastOp.pre_profile) =>
        LET u == lastOp.user
        IN  /\ u \notin db_profiles
            /\ CountRows(u, db_drafts) = lastOp.pre_rows
            /\ lastOp.via = "file" /\ ~lastOp.raised
            /\ u \in DOMAIN draft_files
            /\ Len(draft_files[u]) = (IF lastOp.pre_file < 0 THEN 0 ELSE lastOp.pre_file) + 1
            /\ draft_files[u][Len(draft_files[u])] = Stamped(lastOp.payload)

C30_Witness ==
    /\ lastOp.op = "save_draft" /\ lastOp.fault = "commit"
    /\ use_db /\ db_manager = "ready"
    /\ ~lastOp.pre_profile
    /\ lastOp.pre_file = 1
    /\ ContentOf(lastOp.payload) # ""
    /\ db_profiles = {}

====
